---- MODULE Spec2Model ----
(***************************************************************************)
(* Dataset readiness analyzer of the yoloGenerator platform.               *)
(*                                                                         *)
(* The stores (datasets, images, annotations) and the image files are the  *)
(* state; the HTTP handlers that fill them and DatasetAnalyzer's           *)
(* analyze_dataset are the actions.  Real numbers are exact rationals      *)
(* <<numerator, denominator>>; a standard deviation is taken to            *)
(* StdPrecision digits of a unit (exactly whenever it is rational at that  *)
(* precision).                                                             *)
(***************************************************************************)
EXTENDS Integers, Sequences, FiniteSets, TLC

VARIABLES datasets, images, annotations, files, response, balance_in, split_in, quality_in, iou_in, config_in, advice_in, disk

VARIABLES tracked_jobs, file_positions, lock, threads, log_files, allocated

vars == <<datasets, images, annotations, files, response, balance_in, split_in, quality_in, iou_in, config_in, advice_in, disk, tracked_jobs, file_positions, lock, threads, log_files, allocated>>

stores == <<datasets, images, annotations, files>>

tracker == <<tracked_jobs, file_positions, lock, threads, log_files, allocated>>

(***************************************************************************)
(* Bounds of the model.                                                    *)
(***************************************************************************)
MaxImages == 2

MaxCount == 4

StdPrecision == 1000

(***************************************************************************)
(* Rational arithmetic.                                                    *)
(***************************************************************************)
Abs(x) == IF x < 0 THEN -x ELSE x

RECURSIVE GCD(_, _)
GCD(a, b) == IF b = 0 THEN a ELSE GCD(b, a % b)

Rat(n, d) ==
    LET g == GCD(Abs(n), Abs(d))
        s == IF d < 0 THEN -1 ELSE 1
    IN  IF g = 0 THEN <<0, 1>> ELSE <<s * (n \div g), s * (d \div g)>>

RInt(n) == <<n, 1>>

RAdd(a, b) == Rat(a[1] * b[2] + b[1] * a[2], a[2] * b[2])

RSub(a, b) == Rat(a[1] * b[2] - b[1] * a[2], a[2] * b[2])

RMul(a, b) == Rat(a[1] * b[1], a[2] * b[2])

RDiv(a, b) == Rat(a[1] * b[2], a[2] * b[1])

RLt(a, b) == a[1] * b[2] < b[1] * a[2]

RLe(a, b) == a[1] * b[2] <= b[1] * a[2]

REq(a, b) == a[1] * b[2] = b[1] * a[2]

RMax(a, b) == IF RLt(a, b) THEN b ELSE a

RMin(a, b) == IF RLt(b, a) THEN b ELSE a

RECURSIVE SqrtSearch(_, _, _)
SqrtSearch(x, lo, hi) ==
    IF lo >= hi THEN lo
    ELSE LET mid == (lo + hi + 1) \div 2
         IN  IF mid * mid <= x THEN SqrtSearch(x, mid, hi)
             ELSE SqrtSearch(x, lo, mid - 1)

\* The largest k with k * k <= x.
IntSqrt(x) == SqrtSearch(x, 0, IF x < 46340 THEN x ELSE 46340)

RECURSIVE SumSeq(_)
SumSeq(s) == IF s = <<>> THEN 0 ELSE Head(s) + SumSeq(Tail(s))

RECURSIVE SetToSeq(_)
SetToSeq(S) ==
    IF S = {} THEN <<>>
    ELSE LET x == CHOOSE y \in S : TRUE IN <<x>> \o SetToSeq(S \ {x})

RECURSIVE Flatten(_)
Flatten(ss) == IF ss = <<>> THEN <<>> ELSE Head(ss) \o Flatten(Tail(ss))

Range(s) == {s[i] : i \in DOMAIN s}

(***************************************************************************)
(* The data the requests draw from.                                        *)
(***************************************************************************)
DatasetIds == {"d1"}

RequestIds == {"d1", "d2"}

ClassLists == {<<"A", "B">>}

NoSplit == "NULL"

Splits == {"train", "val"}

NoAnnotation == [none |-> TRUE]

NoResponse == [kind |-> "none"]

Missing == "missing"

\* File contents: the bytes of an uploaded file.  "c0" is not a decodable image.
Contents == {"c0", "c1", "c2"}

Decodable(c) == c # "c0"

PixelSize(c) == IF c = "c2" THEN <<200, 100>> ELSE <<100, 100>>

\* hashlib.md5(bytes).hexdigest(): equal bytes, equal digest.
Md5(c) == <<"md5", c>>

\* The image size a save request carries (the size the annotation canvas showed).
AnnotationSizes == {<<100, 100>>}

Box(x, y, w, h, cid, cname) == [x |-> x, y |-> y, width |-> w, height |-> h, class_id |-> cid, class_name |-> cname]

\* valid, 4% of a 100 x 100 image
BoxSmallA == Box(10, 10, 20, 20, 0, "A")

\* valid, 24% of the image, overlaps BoxSmallA
BoxLargeB == Box(20, 20, 40, 60, 1, "B")

\* valid, 0.25% of the image
BoxTinyA == Box(0, 0, 5, 5, 0, "A")

\* wider than the image
BoxWide == Box(0, 0, 150, 50, 0, "A")

\* starts left of the image
BoxLeft == Box(-5, 10, 20, 20, 1, "B")

\* zero width, inside the image
BoxFlat == Box(10, 10, 0, 20, 0, "A")

\* negative width, inside the image
BoxNegative == Box(50, 50, -10, 10, 1, "B")

\* valid geometry, class name and class id unknown to the dataset
BoxUnknownClass == Box(60, 10, 30, 10, 5, "Z")

\* class name and class id unknown to the dataset, reaches beyond the image
BoxAlien == Box(90, 90, 20, 20, 7, "Z")

\* The box lists a save request may carry.
BoxLists ==
    { <<>>,
      <<BoxSmallA>>,
      <<BoxSmallA, BoxLargeB>>,
      <<BoxWide, BoxSmallA, BoxFlat>>,
      <<BoxUnknownClass, BoxLeft>>,
      <<BoxAlien, BoxUnknownClass>>,
      <<BoxTinyA, BoxNegative, BoxLargeB>> }

(***************************************************************************)
(* ProgressTracker: the per-job maps, the lock and the log files.          *)
(***************************************************************************)
Jobs == {"j1", "j2"}

NoThread == "free"

\* A job_id that is not a key of tracked_jobs.
NoJobInfo == [present |-> FALSE, object |-> 0, epoch |-> 0, status |-> "none"]

\* The dict start_tracking stores for a job; object tells one dict from another.
JobInfo(object, epoch, status) == [present |-> TRUE, object |-> object, epoch |-> epoch, status |-> status]

\* A job_id that is not a key of file_positions.
NoPosition == [present |-> FALSE, position |-> 0]

Position(n) == [present |-> TRUE, position |-> n]

NoJobs == [j \in Jobs |-> NoJobInfo]

NoPositions == [j \in Jobs |-> NoPosition]

Keys(map) == {j \in Jobs : map[j].present}

(***************************************************************************)
(* The directory datasets/<dataset_id>: its subdirectories, data.yaml and  *)
(* the YOLO label file of each image (keyed by the image's file stem).     *)
(***************************************************************************)
\* One line of a label file after strip() and split(): the number of fields,
\* whether they parse as int and float, and the four coordinates.
Line(fields, numeric, x_center, y_center, width, height) == [fields |-> fields, numeric |-> numeric, x_center |-> x_center, y_center |-> y_center, width |-> width, height |-> height]

NoLabelFile == [exists |-> FALSE, lines |-> <<>>]

LabelFile(lines) == [exists |-> TRUE, lines |-> lines]

NoManifest == [exists |-> FALSE, parses |-> FALSE, has_names |-> FALSE, has_nc |-> FALSE, nc |-> 0]

Manifest(parses, has_names, has_nc, nc) == [exists |-> TRUE, parses |-> parses, has_names |-> has_names, has_nc |-> has_nc, nc |-> nc]

NoDisk == [dataset_dir |-> FALSE, images_dir |-> FALSE, labels_dir |-> FALSE, manifest |-> NoManifest, labels |-> <<>>]

\* The line save_annotation writes for a box: class_id, the centre and the
\* size divided by the annotation's width and height.
YoloLine(box, width, height) ==
    Line(5, TRUE, Rat(2 * box.x + box.width, 2 * width), Rat(2 * box.y + box.height, 2 * height), Rat(box.width, width), Rat(box.height, height))

YoloLines(boxes, width, height) == [i \in DOMAIN boxes |-> YoloLine(boxes[i], width, height)]

(***************************************************************************)
(* DatasetAnalyzer.analyze_dataset: the sweep over the annotated images.   *)
(***************************************************************************)
EmptyScan ==
    [all_annotations |-> <<>>, class_counts |-> <<>>, object_sizes |-> <<>>,
     aspect_ratios |-> <<>>, image_hashes |-> <<>>, corrupt_images |-> <<>>,
     label_mismatches |-> <<>>, invalid_boxes |-> <<>>, empty_annotations |-> <<>>,
     invalid_class_ids |-> <<>>, boxes_out_of_bounds |-> <<>>,
     exception |-> "none"]

\* class_counts[class_name] += 1 on a Counter
CounterAdd(counts, name) ==
    IF name \in DOMAIN counts THEN [counts EXCEPT ![name] = @ + 1]
    ELSE [n \in DOMAIN counts \cup {name} |-> IF n = name THEN 1 ELSE counts[n]]

\* image_hashes[img_hash].append(filename), or a new entry [filename]
HashAdd(hashes, h, filename) ==
    IF \E i \in DOMAIN hashes : hashes[i].hash = h
    THEN [i \in DOMAIN hashes |->
            IF hashes[i].hash = h
            THEN [hashes[i] EXCEPT !.files = Append(@, filename)]
            ELSE hashes[i]]
    ELSE Append(hashes, [hash |-> h, files |-> <<filename>>])

ClassIssues(filename, box, dataset_classes) ==
    (IF box.class_name # "" /\ box.class_name \notin Range(dataset_classes)
     THEN <<[filename |-> filename, what |-> "class_name", box |-> box]>>
     ELSE <<>>)
    \o
    (IF box.class_id < 0 \/ box.class_id >= Len(dataset_classes)
     THEN <<[filename |-> filename, what |-> "class_id", box |-> box]>>
     ELSE <<>>)

BoxOutOfBounds(box, img_width, img_height) ==
    \/ box.x < 0
    \/ box.y < 0
    \/ box.x + box.width > img_width
    \/ box.y + box.height > img_height

BoxNotPositive(box) == box.width <= 0 \/ box.height <= 0

\* As ScanBox, but an out-of-bounds box is recorded and then still counted.
ScanBoxNoContinue(acc, filename, img_width, img_height, dataset_classes, box) ==
    LET a1 == IF BoxOutOfBounds(box, img_width, img_height)
              THEN [acc EXCEPT !.boxes_out_of_bounds =
                                   Append(@, [filename |-> filename, box |-> box]),
                               !.invalid_boxes = Append(@, box)]
              ELSE acc
    IN  IF BoxNotPositive(box)
        THEN [a1 EXCEPT !.invalid_boxes = Append(@, box)]
        ELSE [a1 EXCEPT
                !.all_annotations = Append(@, box),
                !.class_counts = IF box.class_name # ""
                                 THEN CounterAdd(@, box.class_name) ELSE @,
                !.object_sizes = Append(@, Rat(box.width * box.height, img_width * img_height)),
                !.aspect_ratios = Append(@, Rat(box.width, box.height))]

\* As ScanBox, but a box with a class violation is recorded and then skipped.
ScanBoxClassFatal(acc, filename, img_width, img_height, dataset_classes, box) ==
    IF ClassIssues(filename, box, dataset_classes) # <<>>
    THEN [acc EXCEPT !.invalid_class_ids =
                         @ \o ClassIssues(filename, box, dataset_classes)]
    ELSE ScanBoxNoContinue(acc, filename, img_width, img_height, dataset_classes, box)

\* As ScanBox, without the positivity check before the statistics.
ScanBoxNoPositivity(acc, filename, img_width, img_height, dataset_classes, box) ==
    LET a1 == [acc EXCEPT !.invalid_class_ids =
                              @ \o ClassIssues(filename, box, dataset_classes)]
        img_area == img_width * img_height
        box_area == box.width * box.height
    IN  IF BoxOutOfBounds(box, img_width, img_height)
        THEN [a1 EXCEPT !.boxes_out_of_bounds =
                            Append(@, [filename |-> filename, box |-> box]),
                        !.invalid_boxes = Append(@, box)]
        ELSE [a1 EXCEPT
                !.all_annotations = Append(@, box),
                !.class_counts = IF box.class_name # ""
                                 THEN CounterAdd(@, box.class_name) ELSE @,
                !.object_sizes = IF img_area > 0
                                 THEN Append(@, Rat(box_area, img_area)) ELSE @,
                !.aspect_ratios = IF img_area > 0 /\ box.width > 0 /\ box.height > 0
                                  THEN Append(@, Rat(box.width, box.height)) ELSE @]

ScanBox(acc, filename, img_width, img_height, dataset_classes, box) ==
    LET a1 == [acc EXCEPT !.invalid_class_ids =
                              @ \o ClassIssues(filename, box, dataset_classes)]
        img_area == img_width * img_height
        box_area == box.width * box.height
    IN  IF BoxOutOfBounds(box, img_width, img_height)
        THEN [a1 EXCEPT !.boxes_out_of_bounds =
                            Append(@, [filename |-> filename, box |-> box]),
                        !.invalid_boxes = Append(@, box)]
        ELSE IF BoxNotPositive(box)
        THEN [a1 EXCEPT !.invalid_boxes = Append(@, box)]
        ELSE [a1 EXCEPT
                !.all_annotations = Append(@, box),
                !.class_counts = IF box.class_name # ""
                                 THEN CounterAdd(@, box.class_name) ELSE @,
                !.object_sizes = IF img_area > 0
                                 THEN Append(@, Rat(box_area, img_area)) ELSE @,
                !.aspect_ratios = IF img_area > 0 /\ box.width > 0 /\ box.height > 0
                                  THEN Append(@, Rat(box.width, box.height)) ELSE @]

RECURSIVE ScanBoxes(_, _, _, _, _, _)
\* The sweep over the boxes that follow, from the counters next.
ScanBoxesFrom(next, filename, img_width, img_height, dataset_classes, boxes) ==
    IF next.exception # "none" THEN next
    ELSE ScanBoxes(next, filename, img_width, img_height, dataset_classes, boxes)

ScanBoxes(acc, filename, img_width, img_height, dataset_classes, boxes) ==
    IF boxes = <<>> THEN acc
    ELSE ScanBoxesFrom(ScanBox(acc, filename, img_width, img_height, dataset_classes, Head(boxes)),
                       filename, img_width, img_height, dataset_classes, Tail(boxes))

\* As ScanImage, but a decode error is not caught.
ScanImageUncaught(acc, img, annotation, file, dataset_classes) ==
    IF annotation = NoAnnotation
    THEN [acc EXCEPT !.empty_annotations = Append(@, img.filename)]
    ELSE IF file = Missing
    THEN [acc EXCEPT !.label_mismatches = Append(@, img.filename)]
    ELSE IF ~Decodable(file)
    THEN [acc EXCEPT !.exception = "UnidentifiedImageError"]
    ELSE
      LET size == PixelSize(file)
          a1 == [acc EXCEPT !.image_hashes = HashAdd(@, Md5(file), img.filename)]
          a2 == IF annotation.width # size[1] \/ annotation.height # size[2]
                THEN [a1 EXCEPT !.label_mismatches = Append(@, img.filename)]
                ELSE a1
          a3 == IF annotation.boxes = <<>>
                THEN [a2 EXCEPT !.empty_annotations = Append(@, img.filename)]
                ELSE a2
      IN  ScanBoxes(a3, img.filename, annotation.width, annotation.height,
                    dataset_classes, annotation.boxes)

\* One pass of the loop body over an annotated image.
ScanImage(acc, img, annotation, file, dataset_classes) ==
    IF annotation = NoAnnotation
    THEN [acc EXCEPT !.empty_annotations = Append(@, img.filename)]
    ELSE IF file = Missing
    THEN [acc EXCEPT !.label_mismatches = Append(@, img.filename)]
    ELSE IF ~Decodable(file)
    THEN [acc EXCEPT !.corrupt_images = Append(@, img.filename)]
    ELSE
      LET size == PixelSize(file)
          a1 == [acc EXCEPT !.image_hashes = HashAdd(@, Md5(file), img.filename)]
          a2 == IF annotation.width # size[1] \/ annotation.height # size[2]
                THEN [a1 EXCEPT !.label_mismatches = Append(@, img.filename)]
                ELSE a1
          a3 == IF annotation.boxes = <<>>
                THEN [a2 EXCEPT !.empty_annotations = Append(@, img.filename)]
                ELSE a2
      IN  ScanBoxes(a3, img.filename, annotation.width, annotation.height,
                    dataset_classes, annotation.boxes)

RECURSIVE ScanImages(_, _, _, _, _)
ScanImages(acc, imgs, anns, fls, dataset_classes) ==
    IF imgs = <<>> THEN acc
    ELSE LET img == Head(imgs)
             next == ScanImage(acc, img, anns[img.id], fls[img.id], dataset_classes)
         IN  \* an exception that is not caught ends the sweep
             IF next.exception # "none" THEN next
             ELSE ScanImages(next, Tail(imgs), anns, fls, dataset_classes)

IsAnnotated(img) == img.annotated

AnnotatedImages(imgs) == SelectSeq(imgs, IsAnnotated)

(***************************************************************************)
(* The statistics and the sub-scores.                                      *)
(***************************************************************************)
TINY_THRESHOLD == <<1, 100>>

SMALL_THRESHOLD == <<5, 100>>

MEDIUM_THRESHOLD == <<20, 100>>

RECURSIVE SumOver(_, _)
SumOver(f, S) ==
    IF S = {} THEN 0
    ELSE LET x == CHOOSE y \in S : TRUE IN f[x] + SumOver(f, S \ {x})

\* np.std (population standard deviation) of the values of counts.
StdCounts(counts) ==
    LET n == Cardinality(DOMAIN counts)
        s1 == SumOver(counts, DOMAIN counts)
        s2 == SumOver([k \in DOMAIN counts |-> counts[k] * counts[k]], DOMAIN counts)
        w == n * s2 - s1 * s1
        r == IntSqrt(w)
    IN  IF r * r = w THEN Rat(r, n)
        ELSE Rat(IntSqrt(w * StdPrecision * StdPrecision), n * StdPrecision)

MeanCounts(counts) == Rat(SumOver(counts, DOMAIN counts), Cardinality(DOMAIN counts))

\* As _calculate_class_balance, without the cap of the coefficient of variation at 1.
_calculate_class_balance_uncapped(class_frequency) ==
    IF DOMAIN class_frequency = {} THEN RInt(0)
    ELSE IF Cardinality(DOMAIN class_frequency) = 1 THEN RInt(1)
    ELSE LET mean_count == MeanCounts(class_frequency)
         IN  IF mean_count[1] = 0 THEN RInt(0)
             ELSE RSub(RInt(1), RDiv(StdCounts(class_frequency), mean_count))

_calculate_class_balance(class_frequency) ==
    IF DOMAIN class_frequency = {} THEN RInt(0)
    ELSE IF Cardinality(DOMAIN class_frequency) = 1 THEN RInt(1)
    ELSE LET mean_count == MeanCounts(class_frequency)
         IN  IF mean_count[1] = 0 THEN RInt(0)
             ELSE LET cv == RDiv(StdCounts(class_frequency), mean_count)
                  IN  RMax(RInt(0), RSub(RInt(1), RMin(cv, RInt(1))))

_categorize_sizes(sizes) ==
    LET tiny(z) == RLt(z, TINY_THRESHOLD)
        small(z) == ~RLt(z, TINY_THRESHOLD) /\ RLt(z, SMALL_THRESHOLD)
        medium(z) == ~RLt(z, SMALL_THRESHOLD) /\ RLt(z, MEDIUM_THRESHOLD)
        large(z) == ~RLt(z, MEDIUM_THRESHOLD)
    IN  [tiny |-> Len(SelectSeq(sizes, tiny)), small |-> Len(SelectSeq(sizes, small)),
         medium |-> Len(SelectSeq(sizes, medium)), large |-> Len(SelectSeq(sizes, large))]

_categorize_aspect_ratios(ratios) ==
    LET portrait(z) == RLt(z, <<8, 10>>)
        landscape(z) == ~RLt(z, <<8, 10>>) /\ RLt(<<12, 10>>, z)
        square(z) == ~RLt(z, <<8, 10>>) /\ ~RLt(<<12, 10>>, z)
    IN  [portrait |-> Len(SelectSeq(ratios, portrait)), square |-> Len(SelectSeq(ratios, square)),
         landscape |-> Len(SelectSeq(ratios, landscape))]

\* As DuplicateFilenames, but the first occurrence is listed too.
DuplicateFilenamesAll(image_hashes) ==
    Flatten([i \in DOMAIN image_hashes |->
               IF Len(image_hashes[i].files) > 1 THEN image_hashes[i].files ELSE <<>>])

\* files[1:] of every hash that was seen more than once
DuplicateFilenames(image_hashes) ==
    Flatten([i \in DOMAIN image_hashes |->
               IF Len(image_hashes[i].files) > 1 THEN Tail(image_hashes[i].files)
               ELSE <<>>])

SplitLabel(img) == IF img.split = NoSplit THEN "none" ELSE img.split

\* As _analyze_splits, but an unset split is not a label of its own.
_analyze_splits_set_only(imgs, image_hashes) ==
    LET labels == {SplitLabel(imgs[i]) : i \in DOMAIN imgs}
        split_dist == [l \in labels |->
                          Cardinality({i \in DOMAIN imgs : SplitLabel(imgs[i]) = l})]
        total == Len(imgs)
        splits_of(fls) ==
            {SplitLabel(imgs[i]) : i \in {j \in DOMAIN imgs : imgs[j].filename \in Range(fls)}}
            \ {"none"}
    IN  IF total = 0
        THEN [split_dist |-> split_dist, split_ratios |-> <<>>, data_leakage |-> FALSE]
        ELSE [split_dist |-> split_dist,
              split_ratios |-> [l \in labels |-> Rat(split_dist[l], total)],
              data_leakage |->
                  \E i \in DOMAIN image_hashes :
                      /\ Len(image_hashes[i].files) > 1
                      /\ Cardinality(splits_of(image_hashes[i].files)) > 1]

_analyze_splits(imgs, image_hashes) ==
    LET labels == {SplitLabel(imgs[i]) : i \in DOMAIN imgs}
        split_dist == [l \in labels |->
                          Cardinality({i \in DOMAIN imgs : SplitLabel(imgs[i]) = l})]
        total == Len(imgs)
        splits_of(fls) ==
            {SplitLabel(imgs[i]) : i \in {j \in DOMAIN imgs : imgs[j].filename \in Range(fls)}}
    IN  IF total = 0
        THEN [split_dist |-> split_dist, split_ratios |-> <<>>, data_leakage |-> FALSE]
        ELSE [split_dist |-> split_dist,
              split_ratios |-> [l \in labels |-> Rat(split_dist[l], total)],
              data_leakage |->
                  \E i \in DOMAIN image_hashes :
                      /\ Len(image_hashes[i].files) > 1
                      /\ Cardinality(splits_of(image_hashes[i].files)) > 1]

\* As _calculate_label_accuracy, without the clamp at 0.
_calculate_label_accuracy_unclamped(imgs, mismatches, corrupt, invalid_box_count, empty_count, out_of_bounds_count) ==
    IF imgs = <<>> THEN RInt(0)
    ELSE LET errors == Rat(Len(mismatches) * 10 + Len(corrupt) * 10
                           + invalid_box_count * 5 + empty_count * 3
                           + out_of_bounds_count * 8, 10)
         IN  RSub(RInt(1), RDiv(errors, RInt(Len(imgs))))

_calculate_label_accuracy(imgs, mismatches, corrupt, invalid_box_count, empty_count, out_of_bounds_count) ==
    IF imgs = <<>> THEN RInt(0)
    ELSE LET total == Len(imgs)
             errors == Rat(Len(mismatches) * 10 + Len(corrupt) * 10
                           + invalid_box_count * 5 + empty_count * 3
                           + out_of_bounds_count * 8, 10)
         IN  RMax(RInt(0), RSub(RInt(1), RDiv(errors, RInt(total))))

\* As BoxesOverlap, with rectangles that share only an edge counted as overlapping.
BoxesOverlapTouching(b1, b2) ==
    ~ \/ b1.x + b1.width < b2.x
      \/ b2.x + b2.width < b1.x
      \/ b1.y + b1.height < b2.y
      \/ b2.y + b2.height < b1.y

BoxesOverlap(b1, b2) ==
    ~ \/ b1.x + b1.width <= b2.x
      \/ b2.x + b2.width <= b1.x
      \/ b1.y + b1.height <= b2.y
      \/ b2.y + b2.height <= b1.y

\* As _calculate_iou_consistency, with the overlap ratio itself as the penalty.
_calculate_iou_consistency_full_penalty(anns) ==
    IF Len(anns) < 2 THEN RInt(1)
    ELSE
      LET wellformed(b) == b.width > 0 /\ b.height > 0 /\ b.x >= 0 /\ b.y >= 0
          valid_boxes == Len(SelectSeq(anns, wellformed))
          pairs == {p \in (DOMAIN anns) \X (DOMAIN anns) :
                      /\ p[1] < p[2]
                      /\ anns[p[1]].width > 0 /\ anns[p[1]].height > 0
                      /\ anns[p[2]].width > 0 /\ anns[p[2]].height > 0}
          total_pairs == Cardinality(pairs)
          overlapping_pairs ==
              Cardinality({p \in pairs : BoxesOverlap(anns[p[1]], anns[p[2]])})
          valid_ratio == Rat(valid_boxes, Len(anns))
          overlap_ratio == Rat(overlapping_pairs, total_pairs)
          overlap_penalty ==
              IF total_pairs > 0 /\ RLt(<<3, 10>>, overlap_ratio)
              THEN overlap_ratio
              ELSE RInt(0)
      IN  RMax(RInt(0), RSub(valid_ratio, overlap_penalty))

_calculate_iou_consistency(anns) ==
    IF Len(anns) < 2 THEN RInt(1)
    ELSE
      LET wellformed(b) == b.width > 0 /\ b.height > 0 /\ b.x >= 0 /\ b.y >= 0
          valid_boxes == Len(SelectSeq(anns, wellformed))
          pairs == {p \in (DOMAIN anns) \X (DOMAIN anns) :
                      /\ p[1] < p[2]
                      /\ anns[p[1]].width > 0 /\ anns[p[1]].height > 0
                      /\ anns[p[2]].width > 0 /\ anns[p[2]].height > 0}
          total_pairs == Cardinality(pairs)
          overlapping_pairs ==
              Cardinality({p \in pairs : BoxesOverlap(anns[p[1]], anns[p[2]])})
          valid_ratio == Rat(valid_boxes, Len(anns))
          overlap_ratio == Rat(overlapping_pairs, total_pairs)
          overlap_penalty ==
              IF total_pairs > 0 /\ RLt(<<3, 10>>, overlap_ratio)
              THEN RMul(RSub(overlap_ratio, <<3, 10>>), <<5, 10>>)
              ELSE RInt(0)
      IN  RMax(RInt(0), RSub(valid_ratio, overlap_penalty))

(***************************************************************************)
(* The composite score, the recommended configuration and the warnings.    *)
(***************************************************************************)
\* As _calculate_quality_score, without the clamp at 0.
_calculate_quality_score_unclamped(balance_score, label_accuracy, iou_consistency, corrupt_count, duplicate_count, mismatch_count, total_images, data_leakage, invalid_box_count, empty_count, out_of_bounds_count, invalid_class_count) ==
    IF total_images = 0 THEN RInt(0)
    ELSE
      LET class_part == IF invalid_class_count = 0 THEN RInt(1) ELSE <<5, 10>>
          base_score ==
              RMul(RAdd(RAdd(RMul(balance_score, <<25, 100>>),
                             RMul(label_accuracy, <<35, 100>>)),
                        RAdd(RMul(iou_consistency, <<25, 100>>),
                             RMul(class_part, <<15, 100>>))),
                   RInt(100))
          error_penalty ==
              Rat((corrupt_count + mismatch_count + out_of_bounds_count) * 40
                  + (duplicate_count + invalid_box_count) * 20
                  + (empty_count + invalid_class_count) * 10, total_images)
          leakage_penalty == IF data_leakage THEN RInt(25) ELSE RInt(0)
      IN  RSub(RSub(base_score, error_penalty), leakage_penalty)

\* As _calculate_quality_score, without the class-validation term of the base score.
_calculate_quality_score_no_class_term(balance_score, label_accuracy, iou_consistency, corrupt_count, duplicate_count, mismatch_count, total_images, data_leakage, invalid_box_count, empty_count, out_of_bounds_count, invalid_class_count) ==
    IF total_images = 0 THEN RInt(0)
    ELSE
      LET base_score ==
              RMul(RAdd(RAdd(RMul(balance_score, <<25, 100>>),
                             RMul(label_accuracy, <<35, 100>>)),
                        RMul(iou_consistency, <<25, 100>>)),
                   RInt(100))
          error_penalty ==
              Rat((corrupt_count + mismatch_count + out_of_bounds_count) * 40
                  + (duplicate_count + invalid_box_count) * 20
                  + (empty_count + invalid_class_count) * 10, total_images)
          leakage_penalty == IF data_leakage THEN RInt(25) ELSE RInt(0)
      IN  RMax(RInt(0), RSub(RSub(base_score, error_penalty), leakage_penalty))

_calculate_quality_score(balance_score, label_accuracy, iou_consistency, corrupt_count, duplicate_count, mismatch_count, total_images, data_leakage, invalid_box_count, empty_count, out_of_bounds_count, invalid_class_count) ==
    IF total_images = 0 THEN RInt(0)
    ELSE
      LET class_part == IF invalid_class_count = 0 THEN RInt(1) ELSE <<5, 10>>
          base_score ==
              RMul(RAdd(RAdd(RMul(balance_score, <<25, 100>>),
                             RMul(label_accuracy, <<35, 100>>)),
                        RAdd(RMul(iou_consistency, <<25, 100>>),
                             RMul(class_part, <<15, 100>>))),
                   RInt(100))
          critical_errors == corrupt_count + mismatch_count + out_of_bounds_count
          moderate_errors == duplicate_count + invalid_box_count
          minor_errors == empty_count + invalid_class_count
          error_penalty ==
              Rat(critical_errors * 40 + moderate_errors * 20 + minor_errors * 10,
                  total_images)
          leakage_penalty == IF data_leakage THEN RInt(25) ELSE RInt(0)
      IN  RMax(RInt(0), RSub(RSub(base_score, error_penalty), leakage_penalty))

TinyRatio(size_dist) ==
    LET total_objects == size_dist.tiny + size_dist.small + size_dist.medium + size_dist.large
    IN  IF total_objects > 0 THEN Rat(size_dist.tiny, total_objects) ELSE RInt(0)

\* As _recommend_training_config, with the tiny_ratio > 0.1 branch also at 1280.
_recommend_training_config_mid(num_images, num_classes, balance_score, size_dist) ==
    [image_size |-> IF RLt(<<1, 10>>, TinyRatio(size_dist)) THEN 1280 ELSE 640,
     batch_size |-> IF num_images < 100 THEN 8
                    ELSE IF num_images < 500 THEN 16
                    ELSE IF num_images < 2000 THEN 32 ELSE 64,
     epochs |-> IF num_images < 100 THEN 200
                ELSE IF num_images < 500 THEN 150
                ELSE IF num_images < 2000 THEN 100 ELSE 50]

_recommend_training_config(num_images, num_classes, balance_score, size_dist) ==
    [image_size |-> IF RLt(<<3, 10>>, TinyRatio(size_dist)) THEN 1280 ELSE 640,
     batch_size |-> IF num_images < 100 THEN 8
                    ELSE IF num_images < 500 THEN 16
                    ELSE IF num_images < 2000 THEN 32 ELSE 64,
     epochs |-> IF num_images < 100 THEN 200
                ELSE IF num_images < 500 THEN 150
                ELSE IF num_images < 2000 THEN 100 ELSE 50]

_recommend_augmentation(balance_score, size_dist, num_images) ==
    [mosaic |-> num_images < 1000,
     mixup |-> IF RLt(balance_score, <<7, 10>>) THEN <<1, 10>> ELSE RInt(0),
     hsv_h |-> <<15, 1000>>, hsv_s |-> <<7, 10>>, hsv_v |-> <<4, 10>>,
     flip |-> <<5, 10>>,
     scale |-> IF RLt(TinyRatio(size_dist), <<2, 10>>) THEN <<5, 10>> ELSE <<3, 10>>,
     degrees |-> IF RLt(<<1, 10>>, TinyRatio(size_dist)) THEN RInt(10) ELSE RInt(0),
     translate |-> <<1, 10>>, blur |-> RInt(0), noise |-> RInt(0)]

\* One entry of the warnings list and the recommendation appended with it.
Advice(rule, count, advice) == <<[warning |-> rule, count |-> count, recommendation |-> advice]>>

When(cond, entry) == IF cond THEN entry ELSE <<>>

MinCount(class_frequency) ==
    IF DOMAIN class_frequency = {} THEN 0
    ELSE CHOOSE m \in Range(class_frequency) : \A k \in Range(class_frequency) : m <= k

\* As BalanceAdvice, with two separate tests instead of if / elif.
BalanceAdviceBoth(balance_score) ==
    When(RLt(balance_score, <<5, 10>>),
         Advice("severe_class_imbalance", 0, "class_weights_or_oversampling"))
    \o When(RLt(balance_score, <<7, 10>>),
            Advice("moderate_class_imbalance", 0, "augment_minority_classes"))

\* The class balance warnings.
BalanceAdvice(balance_score) ==
    IF RLt(balance_score, <<5, 10>>)
    THEN Advice("severe_class_imbalance", 0, "class_weights_or_oversampling")
    ELSE When(RLt(balance_score, <<7, 10>>),
              Advice("moderate_class_imbalance", 0, "augment_minority_classes"))

\* As DefectAdvice, with the tests chained by elif: only the first defect found is reported.
DefectAdviceFirstOnly(corrupt_count, duplicate_count, mismatch_count, invalid_box_count, empty_count, out_of_bounds_count, invalid_class_count) ==
    IF corrupt_count > 0
    THEN Advice("corrupt_images", corrupt_count, "remove_or_fix_corrupt_images")
    ELSE IF duplicate_count > 0
    THEN Advice("duplicate_images", duplicate_count, "remove_duplicate_images")
    ELSE IF mismatch_count > 0
    THEN Advice("label_mismatches", mismatch_count, "fix_label_mismatches")
    ELSE IF invalid_box_count > 0
    THEN Advice("invalid_boxes", invalid_box_count, "fix_invalid_boxes")
    ELSE IF empty_count > 0
    THEN Advice("empty_annotations", empty_count, "remove_or_annotate")
    ELSE IF out_of_bounds_count > 0
    THEN Advice("out_of_bounds", out_of_bounds_count, "fix_out_of_bounds_boxes")
    ELSE When(invalid_class_count > 0,
              Advice("invalid_class_ids", invalid_class_count, "fix_class_ids"))

\* The quality warnings, one test per defect count.
DefectAdvice(corrupt_count, duplicate_count, mismatch_count, invalid_box_count, empty_count, out_of_bounds_count, invalid_class_count) ==
    When(corrupt_count > 0,
         Advice("corrupt_images", corrupt_count, "remove_or_fix_corrupt_images"))
    \o When(duplicate_count > 0,
            Advice("duplicate_images", duplicate_count, "remove_duplicate_images"))
    \o When(mismatch_count > 0,
            Advice("label_mismatches", mismatch_count, "fix_label_mismatches"))
    \o When(invalid_box_count > 0,
            Advice("invalid_boxes", invalid_box_count, "fix_invalid_boxes"))
    \o When(empty_count > 0,
            Advice("empty_annotations", empty_count, "remove_or_annotate"))
    \o When(out_of_bounds_count > 0,
            Advice("out_of_bounds", out_of_bounds_count, "fix_out_of_bounds_boxes"))
    \o When(invalid_class_count > 0,
            Advice("invalid_class_ids", invalid_class_count, "fix_class_ids"))

_generate_warnings_recommendations(class_frequency, balance_score, size_dist, num_images, corrupt_count, duplicate_count, mismatch_count, split_ratios, data_leakage, quality_score, invalid_box_count, empty_count, out_of_bounds_count, invalid_class_count) ==
    LET min_per_class == MinCount(class_frequency)
        total_objects == size_dist.tiny + size_dist.small + size_dist.medium + size_dist.large
    IN  BalanceAdvice(balance_score)
        \o (IF min_per_class < 10
            THEN Advice("very_few_examples", 0, "collect_more_data")
            ELSE When(min_per_class < 50,
                      Advice("limited_examples", 0, "augmentation_or_transfer_learning")))
        \o When(num_images < 100,
                Advice("small_dataset", 0, "aggressive_augmentation"))
        \o When(total_objects > 0 /\ RLt(<<3, 10>>, TinyRatio(size_dist)),
                Advice("tiny_objects", 0, "higher_resolution"))
        \o DefectAdvice(corrupt_count, duplicate_count, mismatch_count, invalid_box_count, empty_count, out_of_bounds_count, invalid_class_count)
        \o When("train" \in DOMAIN split_ratios /\ RLt(split_ratios["train"], <<7, 10>>),
                Advice("train_set_too_small", 0, "increase_training_set"))
        \o When(data_leakage,
                Advice("data_leakage", 0, "fix_split_assignments"))
        \o (IF RLt(quality_score, RInt(50))
            THEN Advice("low_quality", 0, "address_quality_issues")
            ELSE When(RLt(quality_score, RInt(70)),
                      Advice("moderate_quality", 0, "improve_dataset_quality")))

(***************************************************************************)
(* The stores as the analyzer reads them.                                  *)
(***************************************************************************)
NoDataset == [none |-> TRUE]

\* As get_dataset, but an unknown id falls back to a stored dataset.
get_dataset_fallback(dataset_id) ==
    IF dataset_id \in DOMAIN datasets THEN datasets[dataset_id]
    ELSE IF DOMAIN datasets # {} THEN datasets[CHOOSE d \in DOMAIN datasets : TRUE]
    ELSE NoDataset

\* DatasetService.get_dataset
get_dataset(dataset_id) ==
    IF dataset_id \in DOMAIN datasets THEN datasets[dataset_id] ELSE NoDataset

\* DatasetService.get_dataset_images: the rows in upload order
get_dataset_images(dataset_id) ==
    IF dataset_id \in DOMAIN datasets THEN images ELSE <<>>

Warnings(entries) ==
    [i \in DOMAIN entries |-> [warning |-> entries[i].warning, count |-> entries[i].count]]

\* As Recommendations, but the quality rules append a warning only.
RecommendationsNoQuality(entries) ==
    LET advised(e) == e.warning \notin {"low_quality", "moderate_quality"}
        kept == SelectSeq(entries, advised)
    IN  [i \in DOMAIN kept |-> kept[i].recommendation]

Recommendations(entries) == [i \in DOMAIN entries |-> entries[i].recommendation]

Issue(what, file, line) == <<[issue |-> what, file |-> file, line |-> line]>>

_validate_structure(dataset_id, dataset) ==
    IF ~disk.dataset_dir
    THEN Issue("dataset_directory_missing", 0, 0)
    ELSE When(~disk.images_dir, Issue("images_directory_missing", 0, 0))
         \o When(~disk.labels_dir, Issue("labels_directory_missing", 0, 0))
         \o (IF ~disk.manifest.exists THEN <<>>
             ELSE IF ~disk.manifest.parses THEN Issue("invalid_data_yaml", 0, 0)
             ELSE When(~disk.manifest.has_names, Issue("data_yaml_missing_names", 0, 0))
                  \o When(~disk.manifest.has_nc, Issue("data_yaml_missing_nc", 0, 0))
                  \o When((IF disk.manifest.has_nc THEN disk.manifest.nc ELSE 0) # Len(dataset.classes),
                          Issue("data_yaml_class_count_mismatch", 0, 0)))

InUnit(r) == RLe(RInt(0), r) /\ RLe(r, RInt(1))

\* The issues of one line of a label file.
LineIssues(label_filename, line_num, line) ==
    IF line.fields = 0 THEN <<>>
    ELSE IF line.fields # 5 THEN Issue("invalid_format", label_filename, line_num)
    ELSE IF ~line.numeric THEN Issue("invalid_numeric_values", label_filename, line_num)
    ELSE When(~(InUnit(line.x_center) /\ InUnit(line.y_center)
                /\ InUnit(line.width) /\ InUnit(line.height)),
              Issue("coordinates_out_of_range", label_filename, line_num))
         \o When(\/ RLt(RSub(line.x_center, RDiv(line.width, RInt(2))), RInt(0))
                 \/ RLt(RInt(1), RAdd(line.x_center, RDiv(line.width, RInt(2))))
                 \/ RLt(RSub(line.y_center, RDiv(line.height, RInt(2))), RInt(0))
                 \/ RLt(RInt(1), RAdd(line.y_center, RDiv(line.height, RInt(2)))),
                 Issue("box_beyond_boundaries", label_filename, line_num))

\* The issues of the label file of one image.
LabelFileIssues(img) ==
    IF ~img.annotated THEN <<>>
    ELSE IF ~disk.labels[img.id].exists THEN Issue("missing_label_file", img.filename, 0)
    ELSE Flatten([n \in DOMAIN disk.labels[img.id].lines |->
                     LineIssues(img.filename, n, disk.labels[img.id].lines[n])])

_validate_yolo_label_files(dataset_id, imgs) ==
    IF ~(disk.dataset_dir /\ disk.labels_dir)
    THEN Issue("labels_directory_does_not_exist", 0, 0)
    ELSE Flatten([i \in DOMAIN imgs |-> LabelFileIssues(imgs[i])])

\* As StructureReport, but issues of the label files leave structure_valid as it was.
StructureReportLenient(dataset_id, dataset, annotated_images) ==
    LET issues == _validate_structure(dataset_id, dataset)
        label_file_issues == _validate_yolo_label_files(dataset_id, annotated_images)
    IN  [structure_valid |-> issues = <<>>,
         structure_issues |-> issues \o label_file_issues]

\* structure_valid and structure_issues as analyze_dataset combines them.
StructureReport(dataset_id, dataset, annotated_images) ==
    LET issues == _validate_structure(dataset_id, dataset)
        label_file_issues == _validate_yolo_label_files(dataset_id, annotated_images)
    IN  [structure_valid |-> IF label_file_issues # <<>> THEN FALSE ELSE issues = <<>>,
         structure_issues |-> issues \o label_file_issues]

\* The DatasetAnalysis that analyze_dataset builds for an existing dataset.
BuildAnalysis(dataset_id) ==
    LET dataset == get_dataset(dataset_id)
        imgs == get_dataset_images(dataset_id)
        annotated_images == AnnotatedImages(imgs)
        scan == ScanImages(EmptyScan, annotated_images, annotations, files, dataset.classes)
        class_frequency == scan.class_counts
        class_balance_score == _calculate_class_balance(class_frequency)
        size_dist == _categorize_sizes(scan.object_sizes)
        aspect_dist == _categorize_aspect_ratios(scan.aspect_ratios)
        duplicate_filenames == DuplicateFilenames(scan.image_hashes)
        structure == StructureReport(dataset_id, dataset, annotated_images)
        split == _analyze_splits(annotated_images, scan.image_hashes)
        label_accuracy ==
            _calculate_label_accuracy(annotated_images, scan.label_mismatches,
                scan.corrupt_images, Len(scan.invalid_boxes),
                Len(scan.empty_annotations), Len(scan.boxes_out_of_bounds))
        iou_consistency == _calculate_iou_consistency(scan.all_annotations)
        recommended_config ==
            _recommend_training_config(Len(annotated_images),
                Cardinality(DOMAIN class_frequency), class_balance_score, size_dist)
        quality_score ==
            _calculate_quality_score(class_balance_score, label_accuracy,
                iou_consistency, Len(scan.corrupt_images), Len(duplicate_filenames),
                Len(scan.label_mismatches), Len(annotated_images), split.data_leakage,
                Len(scan.invalid_boxes), Len(scan.empty_annotations),
                Len(scan.boxes_out_of_bounds), Len(scan.invalid_class_ids))
        advice ==
            _generate_warnings_recommendations(class_frequency, class_balance_score,
                size_dist, Len(annotated_images), Len(scan.corrupt_images),
                Len(duplicate_filenames), Len(scan.label_mismatches),
                split.split_ratios, split.data_leakage, quality_score,
                Len(scan.invalid_boxes), Len(scan.empty_annotations),
                Len(scan.boxes_out_of_bounds), Len(scan.invalid_class_ids))
    IN  [dataset_id |-> dataset_id,
         dataset_name |-> dataset.name,
         total_images |-> Len(imgs),
         annotated_images |-> Len(annotated_images),
         total_annotations |-> Len(scan.all_annotations),
         classes |-> dataset.classes,
         class_frequency |-> class_frequency,
         class_balance_score |-> class_balance_score,
         object_size_distribution |-> size_dist,
         aspect_ratio_distribution |-> aspect_dist,
         avg_objects_per_image |->
             IF annotated_images # <<>>
             THEN Rat(Len(scan.all_annotations), Len(annotated_images)) ELSE RInt(0),
         structure_valid |-> structure.structure_valid,
         structure_issues |-> structure.structure_issues,
         label_accuracy_score |-> label_accuracy,
         iou_consistency_score |-> iou_consistency,
         duplicate_images |-> duplicate_filenames,
         corrupt_images |-> scan.corrupt_images,
         label_mismatches |-> scan.label_mismatches,
         invalid_boxes |-> [i \in DOMAIN scan.invalid_boxes |-> i],
         empty_annotations |-> scan.empty_annotations,
         invalid_class_ids |-> scan.invalid_class_ids,
         boxes_out_of_bounds |-> scan.boxes_out_of_bounds,
         split_distribution |-> split.split_dist,
         split_ratios |-> split.split_ratios,
         data_leakage_detected |-> split.data_leakage,
         recommended_image_size |-> recommended_config.image_size,
         recommended_batch_size |-> recommended_config.batch_size,
         recommended_epochs |-> recommended_config.epochs,
         augmentation_recommendations |->
             _recommend_augmentation(class_balance_score, size_dist, Len(annotated_images)),
         overall_quality_score |-> quality_score,
         warnings |-> Warnings(advice),
         recommendations |-> Recommendations(advice),
         exception |-> scan.exception]

\* GET /datasets/{dataset_id}/analyze: the reply of the route.
AnalyzeReply(dataset_id) ==
    IF get_dataset(dataset_id) = NoDataset
    THEN [kind |-> "not_found", status |-> 404, dataset_id |-> dataset_id]
    ELSE LET analysis == BuildAnalysis(dataset_id)
         IN  IF analysis.exception # "none"
             THEN [kind |-> "error", status |-> 500, dataset_id |-> dataset_id]
             ELSE [kind |-> "analysis", status |-> 200, dataset_id |-> dataset_id,
                   analysis |-> analysis]

(***************************************************************************)
(* The operations.                                                         *)
(***************************************************************************)
Init ==
    /\ datasets = <<>>
    /\ images = <<>>
    /\ annotations = <<>>
    /\ files = <<>>
    /\ response = NoResponse
    /\ balance_in = <<>>
    /\ split_in = <<>>
    /\ quality_in = <<>>
    /\ iou_in = <<>>
    /\ config_in = <<>>
    /\ advice_in = <<>>
    /\ tracked_jobs = NoJobs
    /\ file_positions = NoPositions
    /\ lock = NoThread
    /\ threads = <<>>
    /\ log_files = <<>>
    /\ allocated = 0
    /\ disk = NoDisk

create_dataset(dataset_id, classes) ==
    /\ dataset_id \notin DOMAIN datasets
    /\ datasets' = [d \in DOMAIN datasets \cup {dataset_id} |->
                       IF d = dataset_id THEN [name |-> dataset_id, classes |-> classes]
                       ELSE datasets[d]]
    /\ disk' = [disk EXCEPT !.dataset_dir = TRUE, !.images_dir = TRUE, !.labels_dir = TRUE]
    /\ response' = NoResponse
    /\ UNCHANGED <<images, annotations, files, balance_in, split_in, quality_in, iou_in, config_in, advice_in, tracker>>

upload_image(dataset_id, content) ==
    /\ dataset_id \in DOMAIN datasets
    /\ Len(images) < MaxImages
    /\ LET image_id == Len(images) + 1
       IN  /\ images' = Append(images, [id |-> image_id, filename |-> image_id,
                                        annotated |-> FALSE, split |-> NoSplit])
           /\ files' = Append(files, content)
           /\ annotations' = Append(annotations, NoAnnotation)
    /\ disk' = [disk EXCEPT !.dataset_dir = TRUE, !.images_dir = TRUE,
                             !.labels = Append(@, NoLabelFile)]
    /\ response' = NoResponse
    /\ UNCHANGED <<datasets, balance_in, split_in, quality_in, iou_in, config_in, advice_in, tracker>>

save_annotation(dataset_id, image_id, size, boxes, split) ==
    /\ dataset_id \in DOMAIN datasets
    /\ image_id \in DOMAIN images
    /\ annotations' = [annotations EXCEPT ![image_id] =
                          [width |-> size[1], height |-> size[2], boxes |-> boxes]]
    /\ images' = [images EXCEPT ![image_id] =
                     [@ EXCEPT !.annotated = TRUE,
                               !.split = IF split # NoSplit THEN split ELSE @]]
    /\ disk' = [disk EXCEPT !.dataset_dir = TRUE, !.labels_dir = TRUE,
                             !.labels[image_id] = LabelFile(YoloLines(boxes, size[1], size[2]))]
    /\ response' = NoResponse
    /\ UNCHANGED <<datasets, files, balance_in, split_in, quality_in, iou_in, config_in, advice_in, tracker>>

\* The file of an image disappears from the dataset directory.
remove_file(image_id) ==
    /\ image_id \in DOMAIN files
    /\ files[image_id] # Missing
    /\ files' = [files EXCEPT ![image_id] = Missing]
    /\ response' = NoResponse
    /\ UNCHANGED <<datasets, images, annotations, balance_in, split_in, quality_in, iou_in, config_in, advice_in, disk, tracked_jobs, file_positions, lock, threads, log_files, allocated>>

\* As analyze_dataset, but the split label it reads is written back to the image.
analyze_dataset_writing(dataset_id) ==
    /\ response' = AnalyzeReply(dataset_id)
    /\ images' = [i \in DOMAIN images |-> [images[i] EXCEPT !.split = SplitLabel(images[i])]]
    /\ UNCHANGED <<datasets, annotations, files, balance_in, split_in, quality_in, iou_in, config_in, advice_in, disk, tracked_jobs, file_positions, lock, threads, log_files, allocated>>

analyze_dataset(dataset_id) ==
    /\ response' = AnalyzeReply(dataset_id)
    /\ UNCHANGED <<datasets, images, annotations, files, balance_in, split_in, quality_in, iou_in, config_in, advice_in, disk, tracked_jobs, file_positions, lock, threads, log_files, allocated>>

Next ==
    \/ \E d \in DatasetIds, c \in ClassLists : create_dataset(d, c)
    \/ \E d \in DatasetIds, c \in Contents : upload_image(d, c)
    \/ \E d \in DatasetIds, i \in 1..MaxImages, z \in AnnotationSizes, b \in BoxLists, s \in Splits \cup {NoSplit} : save_annotation(d, i, z, b, s)
    \/ \E i \in 1..MaxImages : remove_file(i)
    \/ \E d \in RequestIds : analyze_dataset(d)

Spec == Init /\ [][Next]_vars

(***************************************************************************)
(* _calculate_class_balance on its own: every class_frequency mapping over *)
(* ClassNames with counts up to MaxCount.                                  *)
(***************************************************************************)
ClassNames == {"A", "B", "C"}

BalanceInputs == UNION {[S -> 0..MaxCount] : S \in SUBSET ClassNames}

InitBalance ==
    /\ datasets = <<>>
    /\ images = <<>>
    /\ annotations = <<>>
    /\ files = <<>>
    /\ response = NoResponse
    /\ balance_in \in BalanceInputs
    /\ split_in = <<>>
    /\ quality_in = <<>>
    /\ iou_in = <<>>
    /\ config_in = <<>>
    /\ advice_in = <<>>
    /\ tracked_jobs = NoJobs
    /\ file_positions = NoPositions
    /\ lock = NoThread
    /\ threads = <<>>
    /\ log_files = <<>>
    /\ allocated = 0
    /\ disk = NoDisk

class_balance ==
    /\ response = NoResponse
    /\ response' = [kind |-> "class_balance", score |-> _calculate_class_balance(balance_in)]
    /\ UNCHANGED <<datasets, images, annotations, files, balance_in, split_in, quality_in, iou_in, config_in, advice_in, disk, tracked_jobs, file_positions, lock, threads, log_files, allocated>>

NextBalance == class_balance

SpecBalance == InitBalance /\ [][NextBalance]_vars

(***************************************************************************)
(* Properties of analyze_dataset.                                          *)
(***************************************************************************)
Analysed == response.kind = "analysis"

\* The annotated images the sweep reaches past the file and decode checks.
Decoded(i) ==
    /\ images[i].annotated
    /\ annotations[i] # NoAnnotation
    /\ files[i] # Missing
    /\ Decodable(files[i])

SumDist(dist) == SumOver(dist, DOMAIN dist)

\* C1: the overall_quality_score of every analysis lies between 0 and 100.
TheoremC1 ==
    Analysed =>
        /\ RLe(RInt(0), response.analysis.overall_quality_score)
        /\ RLe(response.analysis.overall_quality_score, RInt(100))

\* An analysis of annotated images whose penalties outweigh the base score.
WitnessC1 ==
    /\ Analysed
    /\ response.analysis.annotated_images > 0
    /\ response.analysis.overall_quality_score = RInt(0)
    /\ response.analysis.total_annotations > 0
    /\ Len(response.analysis.boxes_out_of_bounds) > 0

\* The boxes of decoded images that pass the bounds and the positivity check.
PassingBoxes ==
    UNION {{<<i, k>> : k \in {j \in DOMAIN annotations[i].boxes :
                LET b == annotations[i].boxes[j]
                IN  /\ ~(b.x < 0 \/ b.y < 0)
                    /\ ~(b.x + b.width > annotations[i].width)
                    /\ ~(b.y + b.height > annotations[i].height)
                    /\ ~(b.width <= 0 \/ b.height <= 0)}}
           : i \in {j \in DOMAIN images : Decoded(j)}}

FailingBoxes ==
    UNION {{<<i, k>> : k \in DOMAIN annotations[i].boxes}
           : i \in {j \in DOMAIN images : Decoded(j)}} \ PassingBoxes

\* C2: a box failing the bounds or the positivity check is counted in none of
\* class_frequency, object_size_distribution, aspect_ratio_distribution and
\* total_annotations: each counts at most the passing boxes.
TheoremC2 ==
    Analysed =>
        /\ response.analysis.total_annotations <= Cardinality(PassingBoxes)
        /\ SumDist(response.analysis.object_size_distribution) <= Cardinality(PassingBoxes)
        /\ SumDist(response.analysis.aspect_ratio_distribution) <= Cardinality(PassingBoxes)
        /\ \A c \in DOMAIN response.analysis.class_frequency :
              response.analysis.class_frequency[c] <=
                  Cardinality({p \in PassingBoxes :
                                  annotations[p[1]].boxes[p[2]].class_name = c})

\* An analysis that counted a box of an image which also holds failing boxes.
WitnessC2 ==
    /\ Analysed
    /\ response.analysis.total_annotations > 0
    /\ Cardinality(FailingBoxes) >= 2
    /\ Len(response.analysis.boxes_out_of_bounds) > 0

\* C3: for a dataset id that is not in the store the reply is the not-found
\* failure (404) and carries no analysis; for a stored id it is not.
TheoremC3 ==
    response.kind # "none" =>
        /\ response.dataset_id \notin DOMAIN datasets =>
              /\ response.kind = "not_found"
              /\ response.status = 404
              /\ "analysis" \notin DOMAIN response
        /\ response.dataset_id \in DOMAIN datasets => response.kind # "not_found"

\* A not-found reply while another dataset holds annotated images.
WitnessC3 ==
    /\ response.kind = "not_found"
    /\ response.dataset_id \notin DOMAIN datasets
    /\ \E i \in DOMAIN images : images[i].annotated

BadImage(i) ==
    /\ images[i].annotated
    /\ annotations[i] # NoAnnotation
    /\ \/ files[i] = Missing
       \/ ~Decodable(files[i])
       \/ <<annotations[i].width, annotations[i].height>> # PixelSize(files[i])

\* C4: for a stored dataset analyze_dataset never raises, whichever images are
\* missing, corrupt or of another size: the reply is an analysis and each such
\* image is in corrupt_images or label_mismatches.
TheoremC4 ==
    /\ response.kind # "error"
    /\ (response.kind # "none" /\ response.dataset_id \in DOMAIN datasets) => Analysed
    /\ Analysed =>
          \A i \in DOMAIN images :
              BadImage(i) =>
                  images[i].filename \in Range(response.analysis.corrupt_images)
                      \cup Range(response.analysis.label_mismatches)

\* An analysis of a dataset holding a corrupt and a missing image.
WitnessC4 ==
    /\ Analysed
    /\ \E i, j \in DOMAIN images :
          /\ BadImage(i) /\ BadImage(j)
          /\ files[i] = Missing
          /\ files[j] # Missing /\ ~Decodable(files[j])

\* C5: analyze_dataset is read-only: a step that yields a reply, successful or
\* failing, leaves every dataset, image and annotation record (and file) as it was.
TheoremC5 == [][response'.kind # "none" => stores' = stores]_vars

\* A reply for a dataset whose images are annotated and partly without split.
WitnessC5 ==
    /\ Analysed
    /\ Len(images) >= 2
    /\ \A i \in DOMAIN images : images[i].annotated
    /\ \E i, j \in DOMAIN images : images[i].split = NoSplit /\ images[j].split = "train"

\* Two decoded images with the same file content and different split labels.
SameContentOtherSplit(i, j) ==
    /\ i # j
    /\ Decoded(i) /\ Decoded(j)
    /\ Md5(files[i]) = Md5(files[j])
    /\ SplitLabel(images[i]) # SplitLabel(images[j])

\* C6: when two annotated, readable images have the same content hash and
\* different split labels (an unset split being a label of its own), the
\* analysis has data_leakage_detected = true.
TheoremC6 ==
    Analysed =>
        ((\E i, j \in DOMAIN images : SameContentOtherSplit(i, j))
            => response.analysis.data_leakage_detected)

\* An analysis of two identical images, one in train and one in val.
WitnessC6 ==
    /\ Analysed
    /\ \E i, j \in DOMAIN images :
          /\ SameContentOtherSplit(i, j)
          /\ images[i].split = "train"
          /\ images[j].split = "val"
    /\ response.analysis.data_leakage_detected

\* The decoded image i repeats the content of a decoded image scanned before it.
LaterOccurrence(i) ==
    /\ Decoded(i)
    /\ \E j \in DOMAIN images : j < i /\ Decoded(j) /\ Md5(files[j]) = Md5(files[i])

BalanceN == Cardinality(DOMAIN balance_in)

BalanceS1 == SumOver(balance_in, DOMAIN balance_in)

BalanceS2 == SumOver([k \in DOMAIN balance_in |-> balance_in[k] * balance_in[k]], DOMAIN balance_in)

\* (n * std)^2 of the counts; CV = sqrt(BalanceW) / BalanceS1.
BalanceW == BalanceN * BalanceS2 - BalanceS1 * BalanceS1

\* C8: _calculate_class_balance returns a value in [0,1], exactly 0 for the
\* empty mapping, exactly 1 for a single class, and otherwise 1 - min(CV, 1)
\* with CV = population standard deviation / mean of the counts: 0 when
\* CV >= 1, and else 1 - score is CV to within 1/StdPrecision of the mean.
TheoremC8 ==
    response.kind = "class_balance" =>
        LET r == response.score
            c == RSub(RInt(1), r)
            scale == StdPrecision * BalanceS1
        IN  /\ RLe(RInt(0), r) /\ RLe(r, RInt(1))
            /\ BalanceN = 0 => r = RInt(0)
            /\ BalanceN = 1 => r = RInt(1)
            /\ (BalanceN >= 2 /\ BalanceS1 > 0) =>
                  IF BalanceW >= BalanceS1 * BalanceS1 THEN r = RInt(0)
                  ELSE /\ scale % c[2] = 0
                       /\ LET k == c[1] * (scale \div c[2])
                          IN  /\ k * k <= BalanceW * StdPrecision * StdPrecision
                              /\ BalanceW * StdPrecision * StdPrecision < (k + 1) * (k + 1)

\* A mapping of several classes whose score is strictly between 0 and 1.
WitnessC8 ==
    /\ response.kind = "class_balance"
    /\ BalanceN >= 2
    /\ BalanceW > 0
    /\ RLt(RInt(0), response.score)
    /\ RLt(response.score, RInt(1))

\* A decoded image whose annotation size is not the size of the decoded file.
Mismatched(i) ==
    /\ Decoded(i)
    /\ <<annotations[i].width, annotations[i].height>> # PixelSize(files[i])

\* C9: an image whose annotation width/height differs from the decoded image
\* is in label_mismatches and none of its boxes is counted in the statistics
\* or recorded in the per-box defect lists.
CounterexampleC9 ==
    Analysed =>
        /\ \A i \in DOMAIN images :
              Mismatched(i) =>
                  /\ images[i].filename \in Range(response.analysis.label_mismatches)
                  /\ \A e \in Range(response.analysis.boxes_out_of_bounds)
                            \cup Range(response.analysis.invalid_class_ids) :
                        e.filename # images[i].filename
        /\ response.analysis.total_annotations <=
              Cardinality({p \in PassingBoxes : ~Mismatched(p[1])})
        /\ SumDist(response.analysis.object_size_distribution) <=
              Cardinality({p \in PassingBoxes : ~Mismatched(p[1])})

\* C10: an image whose file is missing is recorded in corrupt_images, like a
\* corrupt image, and none of its boxes contributes to a statistic.
CounterexampleC10 ==
    Analysed =>
        /\ \A i \in DOMAIN images :
              (images[i].annotated /\ annotations[i] # NoAnnotation /\ files[i] = Missing)
                  => images[i].filename \in Range(response.analysis.corrupt_images)
        /\ response.analysis.total_annotations <= Cardinality(PassingBoxes)

\* C11: the error penalty of overall_quality_score is divided by the number of
\* all images of the dataset, annotated or not, and the score is forced to 0
\* exactly when the dataset has no image.
CounterexampleC11 ==
    Analysed =>
        LET a == response.analysis
        IN  a.overall_quality_score =
                _calculate_quality_score(a.class_balance_score, a.label_accuracy_score,
                    a.iou_consistency_score, Len(a.corrupt_images),
                    Len(a.duplicate_images), Len(a.label_mismatches), a.total_images,
                    a.data_leakage_detected, Len(a.invalid_boxes),
                    Len(a.empty_annotations), Len(a.boxes_out_of_bounds),
                    Len(a.invalid_class_ids))

\* The annotated images that passed the file, decode and dimension checks.
Surviving == {i \in DOMAIN images : Decoded(i) /\ ~Mismatched(i)}

\* C12: avg_objects_per_image is the number of valid boxes divided by the
\* number of surviving annotated images, and 0 when there is none.
CounterexampleC12 ==
    Analysed =>
        response.analysis.avg_objects_per_image =
            IF Surviving = {} THEN RInt(0)
            ELSE Rat(response.analysis.total_annotations, Cardinality(Surviving))

\* The boxes of decoded images that extend beyond the annotation's width/height.
OutOfBoundsBoxes ==
    {p \in FailingBoxes :
        LET b == annotations[p[1]].boxes[p[2]]
        IN  \/ b.x < 0 \/ b.y < 0
            \/ b.x + b.width > annotations[p[1]].width
            \/ b.y + b.height > annotations[p[1]].height}

\* C13: a box that extends beyond the image is appended to boxes_out_of_bounds,
\* is left out of the size and aspect-ratio statistics, and weighs exactly 0.8
\* in the errors of label_accuracy_score (a box failing only the positivity
\* check weighs 0.5).
CounterexampleC13 ==
    Analysed =>
        LET a == response.analysis
            oob == Len(a.boxes_out_of_bounds)
            errors == Rat(Len(a.label_mismatches) * 10 + Len(a.corrupt_images) * 10
                          + (Len(a.invalid_boxes) - oob) * 5
                          + Len(a.empty_annotations) * 3 + oob * 8, 10)
        IN  /\ oob = Cardinality(OutOfBoundsBoxes)
            /\ SumDist(a.object_size_distribution) <= Cardinality(PassingBoxes)
            /\ SumDist(a.aspect_ratio_distribution) <= Cardinality(PassingBoxes)
            /\ a.annotated_images > 0 =>
                  a.label_accuracy_score =
                      RMax(RInt(0), RSub(RInt(1), RDiv(errors, RInt(a.annotated_images))))

(***************************************************************************)
(* Scenario A: a dataset of one class and ScenarioImages images, every     *)
(* image readable, of its own content, annotated at the decoded size with  *)
(* valid boxes of the class.  The first scenario_k images carry one box    *)
(* list and the rest another; the first scenario_t images are in train.    *)
(***************************************************************************)
ScenarioImages == 10

BoxFive == <<BoxSmallA, BoxSmallA, BoxSmallA, BoxSmallA, BoxSmallA>>

ScenarioBoxLists == {<<BoxSmallA>>, <<BoxTinyA>>, BoxFive}

ScenarioStore(k, first, rest, t, other) ==
    /\ datasets = [d \in {"d1"} |-> [name |-> "d1", classes |-> <<"A">>]]
    /\ images = [i \in 1..ScenarioImages |->
                    [id |-> i, filename |-> i, annotated |-> TRUE,
                     split |-> IF i <= t THEN "train" ELSE other]]
    /\ files = [i \in 1..ScenarioImages |-> ToString(i)]
    /\ annotations = [i \in 1..ScenarioImages |->
                         [width |-> 100, height |-> 100,
                          boxes |-> IF i <= k THEN first ELSE rest]]
    /\ disk = [dataset_dir |-> TRUE, images_dir |-> TRUE, labels_dir |-> TRUE,
               manifest |-> NoManifest,
               labels |-> [i \in 1..ScenarioImages |->
                              LabelFile(YoloLines(IF i <= k THEN first ELSE rest, 100, 100))]]

InitScenario ==
    /\ \E k, t \in 0..ScenarioImages, first, rest \in ScenarioBoxLists, other \in {"val", NoSplit} :
          ScenarioStore(k, first, rest, t, other)
    /\ response = NoResponse
    /\ balance_in = <<>>
    /\ split_in = <<>>
    /\ quality_in = <<>>
    /\ iou_in = <<>>
    /\ config_in = <<>>
    /\ advice_in = <<>>
    /\ tracked_jobs = NoJobs
    /\ file_positions = NoPositions
    /\ lock = NoThread
    /\ threads = <<>>
    /\ log_files = <<>>
    /\ allocated = 0

NextScenario == \E d \in DatasetIds : analyze_dataset(d)

SpecScenario == InitScenario /\ [][NextScenario]_vars

WarningSet == {response.analysis.warnings[i].warning : i \in DOMAIN response.analysis.warnings}

ScenarioD == [c \in {"A", "B"} |-> IF c = "A" THEN 100 ELSE 5]

AdviceInputs == BalanceInputs \cup {ScenarioD}

NoSizes == [tiny |-> 0, small |-> 0, medium |-> 0, large |-> 0]

InitAdvice ==
    /\ datasets = <<>>
    /\ images = <<>>
    /\ annotations = <<>>
    /\ files = <<>>
    /\ response = NoResponse
    /\ balance_in \in AdviceInputs
    /\ split_in = <<>>
    /\ quality_in = <<>>
    /\ iou_in = <<>>
    /\ config_in = <<>>
    /\ advice_in = <<>>
    /\ tracked_jobs = NoJobs
    /\ file_positions = NoPositions
    /\ lock = NoThread
    /\ threads = <<>>
    /\ log_files = <<>>
    /\ allocated = 0
    /\ disk = NoDisk

class_advice(num_images, quality_score) ==
    /\ response = NoResponse
    /\ LET score == _calculate_class_balance(balance_in)
           advice == _generate_warnings_recommendations(balance_in, score, NoSizes,
                         num_images, 0, 0, 0, <<>>, FALSE, quality_score, 0, 0, 0, 0)
       IN  response' = [kind |-> "advice", score |-> score,
                        warnings |-> Warnings(advice),
                        recommendations |-> Recommendations(advice)]
    /\ UNCHANGED <<datasets, images, annotations, files, balance_in, split_in, quality_in, iou_in, config_in, advice_in, disk, tracked_jobs, file_positions, lock, threads, log_files, allocated>>

NextAdvice == \E n \in {10, 200}, q \in {RInt(40), RInt(90)} : class_advice(n, q)

SpecAdvice == InitAdvice /\ [][NextAdvice]_vars

AdviceWarnings == {response.warnings[i].warning : i \in DOMAIN response.warnings}

\* C15: a class balance score below 0.5 gives the severe-imbalance warning and
\* the class-weighting recommendation; a score in [0.5, 0.7) gives the
\* moderate-imbalance warning instead; a score of 0.7 or more gives neither;
\* the two warnings never come together.
TheoremC15 ==
    response.kind = "advice" =>
        /\ RLt(response.score, <<5, 10>>) =>
              /\ "severe_class_imbalance" \in AdviceWarnings
              /\ "class_weights_or_oversampling" \in Range(response.recommendations)
        /\ (RLe(<<5, 10>>, response.score) /\ RLt(response.score, <<7, 10>>)) =>
              /\ "moderate_class_imbalance" \in AdviceWarnings
              /\ "severe_class_imbalance" \notin AdviceWarnings
        /\ RLe(<<7, 10>>, response.score) =>
              /\ "moderate_class_imbalance" \notin AdviceWarnings
              /\ "severe_class_imbalance" \notin AdviceWarnings
        /\ ~ /\ "moderate_class_imbalance" \in AdviceWarnings
             /\ "severe_class_imbalance" \in AdviceWarnings

\* The advice for {A: 100, B: 5}: a score below 0.5 and the severe warning.
WitnessC15 ==
    /\ response.kind = "advice"
    /\ balance_in = ScenarioD
    /\ RLt(RInt(0), response.score)
    /\ RLt(response.score, <<5, 10>>)
    /\ "severe_class_imbalance" \in AdviceWarnings
    /\ "class_weights_or_oversampling" \in Range(response.recommendations)

(***************************************************************************)
(* GET /datasets/{dataset_id}/uncertainty.                                 *)
(***************************************************************************)
BatchLimit == 50

\* The confidences (in percent) of the detections model.predict returns for an image.
PredictionSets == {<<>>, <<30>>, <<90, 30>>}

MaxConf(results) == CHOOSE m \in Range(results) : \A c \in Range(results) : c <= m

\* One entry of scored_images.
ScoredImage(img, results) ==
    [id |-> img.id, filename |-> img.filename,
     uncertainty_score |-> IF results = <<>> THEN 100 ELSE 100 - MaxConf(results),
     detections_count |-> Len(results)]

\* list.sort(key = uncertainty_score, reverse = True): stable, highest first.
RECURSIVE SortByUncertainty(_)
SortByUncertainty(scored) ==
    IF scored = <<>> THEN <<>>
    ELSE LET rest == SortByUncertainty(Tail(scored))
             before == SelectSeq(rest, LAMBDA e : e.uncertainty_score > Head(scored).uncertainty_score)
             after == SelectSeq(rest, LAMBDA e : e.uncertainty_score <= Head(scored).uncertainty_score)
         IN  before \o <<Head(scored)>> \o after

\* What the handler raises or returns inside its try block.
UncertaintyBody(dataset_id, model_loads, predictions) ==
    IF get_dataset(dataset_id) = NoDataset
    THEN [raised |-> "HTTPException", status |-> 404, detail |-> "Dataset not found"]
    ELSE
      LET all_images == get_dataset_images(dataset_id)
          unlabeled_images == SelectSeq(all_images, LAMBDA img : ~img.annotated)
          batch_images ==
              SubSeq(unlabeled_images, 1,
                     IF Len(unlabeled_images) < BatchLimit
                     THEN Len(unlabeled_images) ELSE BatchLimit)
          present == SelectSeq(batch_images, LAMBDA img : files[img.id] # Missing)
          scored_images ==
              [i \in DOMAIN present |-> ScoredImage(present[i], predictions[present[i].id])]
      IN  IF unlabeled_images = <<>>
          THEN [raised |-> "none", success |-> TRUE, images |-> <<>>]
          ELSE IF ~model_loads
          THEN [raised |-> "Exception", status |-> 0, detail |-> "model"]
          ELSE [raised |-> "none", success |-> TRUE,
                images |-> SortByUncertainty(scored_images),
                total_unlabeled |-> Len(unlabeled_images),
                analyzed_count |-> Len(batch_images)]

\* str(e) of an HTTPException.
HttpExceptionText(status, detail) ==
    IF status = 404 /\ detail = "Dataset not found" THEN "404: Dataset not found"
    ELSE detail

\* The reply of the route: whatever is raised in the try block, the 404
\* included, is caught by `except Exception` and becomes a 500.
UncertaintyReply(dataset_id, model_loads, predictions) ==
    LET body == UncertaintyBody(dataset_id, model_loads, predictions)
    IN  IF body.raised = "HTTPException"
        THEN [kind |-> "uncertainty", dataset_id |-> dataset_id, status |-> 500,
              detail |-> HttpExceptionText(body.status, body.detail)]
        ELSE IF body.raised # "none"
        THEN [kind |-> "uncertainty", dataset_id |-> dataset_id, status |-> 500,
              detail |-> body.detail]
        ELSE [kind |-> "uncertainty", dataset_id |-> dataset_id, status |-> 200,
              content |-> body]

analyze_uncertainty(dataset_id, model_loads, predictions) ==
    /\ response' = UncertaintyReply(dataset_id, model_loads, predictions)
    /\ UNCHANGED <<datasets, images, annotations, files, balance_in, split_in, quality_in, iou_in, config_in, advice_in, disk, tracked_jobs, file_positions, lock, threads, log_files, allocated>>

NextUncertainty ==
    \/ \E d \in DatasetIds, c \in ClassLists : create_dataset(d, c)
    \/ \E d \in DatasetIds, c \in {"c1", "c2"} : upload_image(d, c)
    \/ \E d \in DatasetIds, i \in 1..MaxImages, s \in Splits \cup {NoSplit} : save_annotation(d, i, <<100, 100>>, <<BoxSmallA>>, s)
    \/ \E i \in 1..MaxImages : remove_file(i)
    \/ \E d \in RequestIds, l \in BOOLEAN, p \in [1..MaxImages -> PredictionSets] : analyze_uncertainty(d, l, p)

SpecUncertainty == Init /\ [][NextUncertainty]_vars

\* C16: a GET on the uncertainty endpoint for a dataset id that is not in the
\* store is answered with HTTP 404 and the detail 'Dataset not found'.
CounterexampleC16 ==
    (response.kind = "uncertainty" /\ response.dataset_id \notin DOMAIN datasets) =>
        /\ response.status = 404
        /\ response.detail = "Dataset not found"

(***************************************************************************)
(* split_dataset_stratified on its own: image lists of up to               *)
(* MaxSplitImages images with distinct ids, each with a set of class       *)
(* names.  random.shuffle is a permutation the action draws; the order of  *)
(* list(set) that breaks ties of min() is the class the action draws.      *)
(***************************************************************************)
MaxSplitImages == 3

SplitClassNames == {"A", "B"}

\* train_ratio, val_ratio, test_ratio, in tenths
SplitRatios == {<<8, 2, 0>>, <<1, 1, 8>>, <<10, 0, 0>>}

SplitImageLists ==
    UNION {{[i \in 1..n |-> [id |-> i, classes |-> cs[i]]] :
               cs \in [1..n -> SUBSET SplitClassNames]} : n \in 0..MaxSplitImages}

Shuffles(n) == {s \in [1..n -> 1..n] : \A i, j \in 1..n : i # j => s[i] # s[j]}

\* int(x) of a rational that is not negative
RFloor(r) == r[1] \div r[2]

\* lst[a:b]
Slice(s, a, b) == SubSeq(s, a + 1, IF b < Len(s) THEN b ELSE Len(s))

\* The members of S in the order the shuffle p gives them.
OrderBy(S, p) == SelectSeq(p, LAMBDA i : i \in S)

GlobalClassCounts(imgs) ==
    [c \in UNION {imgs[i].classes : i \in DOMAIN imgs} |->
        Cardinality({i \in DOMAIN imgs : c \in imgs[i].classes})]

\* min(classes, key = global_class_counts): the first of the least frequent
\* classes in the order of list(classes), which puts `first` first.
RarestClass(classes, counts, first) ==
    LET least == {c \in classes : \A d \in classes : counts[c] <= counts[d]}
    IN  IF first \in least THEN first ELSE CHOOSE c \in least : TRUE

\* As SplitCounts, without the guarantee of one training sample per bucket.
SplitCountsNoMinimum(n_total, train_ratio, val_ratio) ==
    LET n_train == RFloor(RMul(RInt(n_total), train_ratio))
        n_val == RFloor(RMul(RInt(n_total), val_ratio))
    IN  IF n_total > 1 /\ n_val = 0 /\ RLt(RInt(0), val_ratio)
        THEN [n_train |-> IF n_train + 1 > n_total
                          THEN (IF n_total - 1 > 0 THEN n_total - 1 ELSE 0)
                          ELSE n_train,
              n_val |-> 1]
        ELSE [n_train |-> n_train, n_val |-> n_val]

\* n_train and n_val of a bucket of n_total images.
SplitCounts(n_total, train_ratio, val_ratio) ==
    LET n_train == RFloor(RMul(RInt(n_total), train_ratio))
        n_val == RFloor(RMul(RInt(n_total), val_ratio))
    IN  IF n_total > 0 /\ n_train = 0
        THEN [n_train |-> 1, n_val |-> 0]
        ELSE IF n_total > 1 /\ n_val = 0 /\ RLt(RInt(0), val_ratio)
        THEN [n_train |-> IF n_train + 1 > n_total
                          THEN (IF n_total - 1 > 0 THEN n_total - 1 ELSE 0)
                          ELSE n_train,
              n_val |-> 1]
        ELSE [n_train |-> n_train, n_val |-> n_val]

split_dataset_stratified(imgs, ratios, first, p, q) ==
    LET total_ratio == ratios[1] + ratios[2] + ratios[3]
        train_ratio == Rat(ratios[1], total_ratio)
        val_ratio == Rat(ratios[2], total_ratio)
        global_class_counts == GlobalClassCounts(imgs)
        rarest == [i \in DOMAIN imgs |->
                     IF imgs[i].classes = {} THEN "__background__"
                     ELSE RarestClass(imgs[i].classes, global_class_counts, first)]
        names == {rarest[i] : i \in DOMAIN imgs}
        chunks == [b \in names |->
                     LET bucket_images == OrderBy({i \in DOMAIN imgs : rarest[i] = b}, p)
                         n_total == Len(bucket_images)
                         n == SplitCounts(n_total, train_ratio, val_ratio)
                     IN  [train |-> Range(Slice(bucket_images, 0, n.n_train)),
                          val |-> Range(Slice(bucket_images, n.n_train, n.n_train + n.n_val)),
                          test |-> Range(Slice(bucket_images, n.n_train + n.n_val, n_total))]]
        listed(S) == LET order == OrderBy(S, q) IN [k \in DOMAIN order |-> imgs[order[k]]]
        shuffled == [k \in DOMAIN imgs |-> imgs[p[k]]]
        n_train == RFloor(RMul(RInt(Len(imgs)), train_ratio))
        n_val == RFloor(RMul(RInt(Len(imgs)), val_ratio))
    IN  IF DOMAIN global_class_counts = {}
        THEN [train |-> Slice(shuffled, 0, n_train),
              val |-> Slice(shuffled, n_train, n_train + n_val),
              test |-> Slice(shuffled, n_train + n_val, Len(shuffled)),
              buckets |-> <<>>]
        ELSE [train |-> listed(UNION {chunks[b].train : b \in names}),
              val |-> listed(UNION {chunks[b].val : b \in names}),
              test |-> listed(UNION {chunks[b].test : b \in names}),
              buckets |-> rarest]

InitSplit ==
    /\ datasets = <<>>
    /\ images = <<>>
    /\ annotations = <<>>
    /\ files = <<>>
    /\ response = NoResponse
    /\ balance_in = <<>>
    /\ split_in \in [images : SplitImageLists, ratios : SplitRatios]
    /\ quality_in = <<>>
    /\ iou_in = <<>>
    /\ config_in = <<>>
    /\ advice_in = <<>>
    /\ tracked_jobs = NoJobs
    /\ file_positions = NoPositions
    /\ lock = NoThread
    /\ threads = <<>>
    /\ log_files = <<>>
    /\ allocated = 0
    /\ disk = NoDisk

stratified_split(first, p, q) ==
    /\ response = NoResponse
    /\ response' = [kind |-> "split",
                    splits |-> split_dataset_stratified(split_in.images, split_in.ratios,
                                                        first, p, q)]
    /\ UNCHANGED <<datasets, images, annotations, files, balance_in, split_in, quality_in, iou_in, config_in, advice_in, disk, tracked_jobs, file_positions, lock, threads, log_files, allocated>>

NextSplit ==
    /\ response = NoResponse
    /\ \E first \in SplitClassNames, p, q \in Shuffles(Len(split_in.images)) :
          stratified_split(first, p, q)

SpecSplit == InitSplit /\ [][NextSplit]_vars

\* C17: split_dataset_stratified puts every image in exactly one of train,
\* val and test, and of each bucket of n images sharing the same rarest class
\* it puts floor(n * train_ratio / (train_ratio + val_ratio + test_ratio))
\* in train, or 1 when that is 0, whatever the shuffles give.
TheoremC17 ==
    response.kind = "split" =>
        LET imgs == split_in.images
            r == split_in.ratios
            out == response.splits
            all == out.train \o out.val \o out.test
            count(c) == Cardinality({i \in DOMAIN imgs : c \in imgs[i].classes})
            InTrain(i) == \E k \in DOMAIN out.train : out.train[k].id = imgs[i].id
        IN  /\ Len(all) = Len(imgs)
            /\ \A i \in DOMAIN imgs : Cardinality({k \in DOMAIN all : all[k] = imgs[i]}) = 1
            /\ (\E i \in DOMAIN imgs : imgs[i].classes # {}) =>
                  /\ \A i \in DOMAIN imgs :
                        imgs[i].classes # {} =>
                            /\ out.buckets[i] \in imgs[i].classes
                            /\ \A d \in imgs[i].classes : count(out.buckets[i]) <= count(d)
                  /\ \A c \in SplitClassNames :
                        LET B == {i \in DOMAIN imgs : out.buckets[i] = c}
                            n == Cardinality(B)
                            f == (n * r[1]) \div (r[1] + r[2] + r[3])
                        IN  n > 0 =>
                                Cardinality({i \in B : InTrain(i)}) = IF f = 0 THEN 1 ELSE f

\* Three images of class A at 0.1/0.1/0.8: floor(0.3) = 0, so one in train.
WitnessC17 ==
    /\ response.kind = "split"
    /\ split_in.ratios = <<1, 1, 8>>
    /\ Len(split_in.images) >= 3
    /\ \A i \in DOMAIN split_in.images : split_in.images[i].classes = {"A"}
    /\ Len(response.splits.train) = 1
    /\ Len(response.splits.val) = 0

(***************************************************************************)
(* _calculate_quality_score on its own.                                    *)
(***************************************************************************)
SubScores == {<<0, 1>>, <<1, 2>>, <<1, 1>>}

DefectCounts == {0, 1}

ImageTotals == {1, 4}

QualityInputs ==
    [balance_score : SubScores, label_accuracy : SubScores, iou_consistency : SubScores,
     corrupt_count : DefectCounts, duplicate_count : DefectCounts,
     mismatch_count : DefectCounts, total_images : ImageTotals, data_leakage : BOOLEAN,
     invalid_box_count : DefectCounts, empty_count : DefectCounts,
     out_of_bounds_count : DefectCounts, invalid_class_count : DefectCounts]

InitQuality ==
    /\ datasets = <<>>
    /\ images = <<>>
    /\ annotations = <<>>
    /\ files = <<>>
    /\ response = NoResponse
    /\ balance_in = <<>>
    /\ split_in = <<>>
    /\ quality_in \in QualityInputs
    /\ iou_in = <<>>
    /\ config_in = <<>>
    /\ advice_in = <<>>
    /\ tracked_jobs = NoJobs
    /\ file_positions = NoPositions
    /\ lock = NoThread
    /\ threads = <<>>
    /\ log_files = <<>>
    /\ allocated = 0
    /\ disk = NoDisk

quality_score ==
    /\ response = NoResponse
    /\ response' =
          [kind |-> "quality",
           score |-> _calculate_quality_score(quality_in.balance_score,
                         quality_in.label_accuracy, quality_in.iou_consistency,
                         quality_in.corrupt_count, quality_in.duplicate_count,
                         quality_in.mismatch_count, quality_in.total_images,
                         quality_in.data_leakage, quality_in.invalid_box_count,
                         quality_in.empty_count, quality_in.out_of_bounds_count,
                         quality_in.invalid_class_count)]
    /\ UNCHANGED <<datasets, images, annotations, files, balance_in, split_in, quality_in, iou_in, config_in, advice_in, disk, tracked_jobs, file_positions, lock, threads, log_files, allocated>>

NextQuality == quality_score

SpecQuality == InitQuality /\ [][NextQuality]_vars

\* base - penalty - leakage_penalty of quality_in, term by term.
QualityRaw ==
    LET in == quality_in
        class_term == IF in.invalid_class_count = 0 THEN <<15, 100>> ELSE <<75, 1000>>
        base == RMul(RInt(100),
                     RAdd(RAdd(RMul(in.balance_score, <<1, 4>>),
                               RMul(in.label_accuracy, <<7, 20>>)),
                          RAdd(RMul(in.iou_consistency, <<1, 4>>), class_term)))
        critical == in.corrupt_count + in.mismatch_count + in.out_of_bounds_count
        moderate == in.duplicate_count + in.invalid_box_count
        minor == in.empty_count + in.invalid_class_count
        penalty == RAdd(RAdd(RMul(RInt(40), Rat(critical, in.total_images)),
                             RMul(RInt(20), Rat(moderate, in.total_images))),
                        RMul(RInt(10), Rat(minor, in.total_images)))
    IN  RSub(RSub(base, penalty), IF in.data_leakage THEN RInt(25) ELSE RInt(0))

\* C18: for total_images > 0, _calculate_quality_score is
\* max(0, base - penalty - leakage_penalty) with the base, the penalty and the
\* leakage penalty of the formula.
TheoremC18 ==
    (response.kind = "quality" /\ quality_in.total_images > 0) =>
        response.score = IF RLt(QualityRaw, RInt(0)) THEN RInt(0) ELSE QualityRaw

\* An input with defects of every severity, leakage and a score above 0.
WitnessC18 ==
    /\ response.kind = "quality"
    /\ quality_in.corrupt_count > 0
    /\ quality_in.duplicate_count > 0
    /\ quality_in.empty_count > 0
    /\ quality_in.invalid_class_count > 0
    /\ quality_in.data_leakage
    /\ RLt(RInt(0), response.score)
    /\ RLt(response.score, RInt(50))

\* 1.0 * (label_mismatches + corrupt_images) + 0.5 * invalid boxes
\* + 0.3 * empty annotations + 0.8 * out-of-bounds boxes of the reply.
WeightedErrors ==
    LET a == response.analysis
    IN  RAdd(RAdd(RInt(Len(a.label_mismatches) + Len(a.corrupt_images)),
                  RMul(<<1, 2>>, RInt(Len(a.invalid_boxes)))),
             RAdd(RMul(<<3, 10>>, RInt(Len(a.empty_annotations))),
                  RMul(<<4, 5>>, RInt(Len(a.boxes_out_of_bounds)))))

\* C19: label_accuracy_score and iou_consistency_score of every analysis lie
\* in [0,1], and label_accuracy_score is
\* max(0, 1 - weighted error count / number of annotated images).
TheoremC19 ==
    Analysed =>
        LET a == response.analysis
            raw == RSub(RInt(1), RDiv(WeightedErrors, RInt(a.annotated_images)))
        IN  /\ RLe(RInt(0), a.label_accuracy_score) /\ RLe(a.label_accuracy_score, RInt(1))
            /\ RLe(RInt(0), a.iou_consistency_score) /\ RLe(a.iou_consistency_score, RInt(1))
            /\ a.annotated_images > 0 =>
                  a.label_accuracy_score = IF RLt(raw, RInt(0)) THEN RInt(0) ELSE raw

\* An analysis with both scores strictly between 0 and 1.
WitnessC19 ==
    /\ Analysed
    /\ RLt(RInt(0), response.analysis.label_accuracy_score)
    /\ RLt(response.analysis.label_accuracy_score, RInt(1))
    /\ RLt(RInt(0), response.analysis.iou_consistency_score)
    /\ RLt(response.analysis.iou_consistency_score, RInt(1))

(***************************************************************************)
(* _calculate_iou_consistency as a function of the list all_annotations    *)
(* that analyze_dataset hands it: boxes of every image, each one inside    *)
(* its image and of positive width and height.                             *)
(***************************************************************************)
MaxBoxes == 4

\* shares the edge x = 30 with BoxSmallA, overlaps BoxLargeB
BoxTouch == Box(30, 10, 20, 20, 0, "A")

\* BoxUnknownClass shares the edge x = 60 with BoxLargeB.
SurvivingBoxes == {BoxSmallA, BoxLargeB, BoxTinyA, BoxTouch, BoxUnknownClass}

IouInputs == UNION {[1..n -> SurvivingBoxes] : n \in 0..MaxBoxes}

InitIou ==
    /\ datasets = [d \in DatasetIds |-> NoDataset]
    /\ images = <<>>
    /\ annotations = <<>>
    /\ files = {}
    /\ response = NoResponse
    /\ balance_in = <<>>
    /\ split_in = <<>>
    /\ quality_in = <<>>
    /\ iou_in \in IouInputs
    /\ config_in = <<>>
    /\ advice_in = <<>>
    /\ tracked_jobs = NoJobs
    /\ file_positions = NoPositions
    /\ lock = NoThread
    /\ threads = <<>>
    /\ log_files = <<>>
    /\ allocated = 0
    /\ disk = NoDisk

iou_consistency ==
    /\ response = NoResponse
    /\ response' = [kind |-> "iou", score |-> _calculate_iou_consistency(iou_in)]
    /\ UNCHANGED <<datasets, images, annotations, files, balance_in, split_in, quality_in, iou_in, config_in, advice_in, disk, tracked_jobs, file_positions, lock, threads, log_files, allocated>>

NextIou == iou_consistency

SpecIou == InitIou /\ [][NextIou]_vars

ValidBox(b) == b.width > 0 /\ b.height > 0 /\ b.x >= 0 /\ b.y >= 0

Least(a, b) == IF a < b THEN a ELSE b

Greatest(a, b) == IF a > b THEN a ELSE b

\* Area of the intersection of two rectangles, 0 when they do not meet.
IntersectionArea(b1, b2) ==
    LET w == Least(b1.x + b1.width, b2.x + b2.width) - Greatest(b1.x, b2.x)
        h == Least(b1.y + b1.height, b2.y + b2.height) - Greatest(b1.y, b2.y)
    IN  IF w > 0 /\ h > 0 THEN w * h ELSE 0

\* Index pairs i < j of valid boxes of iou_in.
ValidPairs ==
    {p \in (DOMAIN iou_in) \X (DOMAIN iou_in) :
        p[1] < p[2] /\ ValidBox(iou_in[p[1]]) /\ ValidBox(iou_in[p[2]])}

OverlappingPairs == {p \in ValidPairs : IntersectionArea(iou_in[p[1]], iou_in[p[2]]) > 0}

\* C20: _calculate_iou_consistency returns 1 for fewer than 2 boxes, and
\* otherwise max(0, fraction of well-formed boxes - penalty), where the
\* overlap ratio is overlapping pairs / all pairs over the valid boxes of the
\* whole dataset, a pair overlaps iff its intersection has non-zero area, and
\* the penalty is 0 up to a ratio of 0.3 and (ratio - 0.3) * 0.5 above it.
TheoremC20 ==
    response.kind = "iou" =>
        IF Len(iou_in) < 2 THEN response.score = RInt(1)
        ELSE
          LET fraction == Rat(Len(SelectSeq(iou_in, ValidBox)), Len(iou_in))
              ratio == Rat(Cardinality(OverlappingPairs), Cardinality(ValidPairs))
              penalty == IF ValidPairs = {} \/ RLe(ratio, <<3, 10>>) THEN RInt(0)
                         ELSE RMul(RSub(ratio, <<3, 10>>), <<1, 2>>)
              raw == RSub(fraction, penalty)
          IN  response.score = IF RLt(raw, RInt(0)) THEN RInt(0) ELSE raw

\* Boxes of the list touch on an edge only, another pair overlaps, and the
\* overlap ratio is above 0.3 so that a penalty is taken.
WitnessC20 ==
    /\ response.kind = "iou"
    /\ Len(iou_in) >= 3
    /\ \E p \in ValidPairs \ OverlappingPairs :
           LET b1 == iou_in[p[1]]
               b2 == iou_in[p[2]]
           IN  b1.x + b1.width = b2.x \/ b2.x + b2.width = b1.x
    /\ OverlappingPairs # {}
    /\ RLt(response.score, RInt(1))

\* The boxes of decoded images whose class_name is not a class of the dataset
\* or whose class_id is outside 0 .. len(classes) - 1.
ClassViolations(d) ==
    {p \in PassingBoxes \cup FailingBoxes :
        LET b == annotations[p[1]].boxes[p[2]]
        IN  \/ b.class_name \notin Range(datasets[d].classes)
            \/ b.class_id < 0
            \/ b.class_id >= Len(datasets[d].classes)}

\* C21: a box with a class violation is recorded in invalid_class_ids and is
\* still put through the bounds and positivity checks: failing them it is
\* recorded as an invalid box, passing them it is counted in
\* total_annotations and in the size and aspect-ratio statistics.
TheoremC21 ==
    Analysed =>
        LET a == response.analysis
            viol == ClassViolations(response.dataset_id)
        IN  /\ \A p \in viol :
                  \E e \in Range(a.invalid_class_ids) :
                      /\ e.filename = images[p[1]].filename
                      /\ e.box = annotations[p[1]].boxes[p[2]]
            /\ Len(a.invalid_boxes) = Cardinality(FailingBoxes)
            /\ a.total_annotations = Cardinality(PassingBoxes)
            /\ SumDist(a.object_size_distribution) = Cardinality(PassingBoxes)
            /\ SumDist(a.aspect_ratio_distribution) = Cardinality(PassingBoxes)

\* An analysis in which a box of an unknown class passed both checks and is
\* the only box counted, and another box of a wrong class failed them.
WitnessC21 ==
    /\ Analysed
    /\ \E p \in ClassViolations(response.dataset_id) \cap PassingBoxes :
           PassingBoxes = {p}
    /\ ClassViolations(response.dataset_id) \cap FailingBoxes # {}
    /\ response.analysis.total_annotations = 1
    /\ Len(response.analysis.invalid_class_ids) >= 2

(***************************************************************************)
(* _recommend_training_config as a function of the number of annotated     *)
(* images and the object size distribution.                                *)
(***************************************************************************)
MaxTiny == 3

MaxSmall == 7

\* The image counts on both sides of each threshold of the table.
ImageCounts == {0, 1, 99, 100, 101, 499, 500, 1999, 2000, 2500}

SizeDists ==
    [tiny : 0..MaxTiny, small : 0..MaxSmall, medium : {0}, large : {0, 1}]

ConfigInputs == [num_images : ImageCounts, size_dist : SizeDists]

InitConfig ==
    /\ datasets = <<>>
    /\ images = <<>>
    /\ annotations = <<>>
    /\ files = <<>>
    /\ response = NoResponse
    /\ balance_in = <<>>
    /\ split_in = <<>>
    /\ quality_in = <<>>
    /\ iou_in = <<>>
    /\ config_in \in ConfigInputs
    /\ advice_in = <<>>
    /\ tracked_jobs = NoJobs
    /\ file_positions = NoPositions
    /\ lock = NoThread
    /\ threads = <<>>
    /\ log_files = <<>>
    /\ allocated = 0
    /\ disk = NoDisk

training_config ==
    /\ response = NoResponse
    /\ response' = [kind |-> "config",
                    config |-> _recommend_training_config(config_in.num_images, 2,
                                   RInt(1), config_in.size_dist)]
    /\ UNCHANGED <<datasets, images, annotations, files, balance_in, split_in, quality_in, iou_in, config_in, advice_in, disk, tracked_jobs, file_positions, lock, threads, log_files, allocated>>

NextConfig == training_config

SpecConfig == InitConfig /\ [][NextConfig]_vars

\* Row of the rule table for n images: 1 for n < 100, 2 for n < 500,
\* 3 for n < 2000 and 4 from 2000 on.
TableRow(n) == IF n < 100 THEN 1 ELSE IF n < 500 THEN 2 ELSE IF n < 2000 THEN 3 ELSE 4

BatchSizes == <<8, 16, 32, 64>>

EpochCounts == <<200, 150, 100, 50>>

\* C22: image_size is 1280 iff more than 0.3 of the objects are tiny and 640
\* otherwise (640 without objects); batch_size and epochs follow the table
\* 8/16/32/64 and 200/150/100/50 for num_images < 100, < 500, < 2000 and
\* >= 2000, so that no smaller dataset gets a larger batch size or fewer epochs.
TheoremC22 ==
    response.kind = "config" =>
        LET d == config_in.size_dist
            objects == d.tiny + d.small + d.medium + d.large
            n == config_in.num_images
        IN  /\ response.config.image_size \in {640, 1280}
            /\ response.config.image_size = 1280 <=>
                  (objects > 0 /\ 10 * d.tiny > 3 * objects)
            /\ response.config.batch_size = BatchSizes[TableRow(n)]
            /\ response.config.epochs = EpochCounts[TableRow(n)]
            /\ \A m \in ImageCounts :
                  m <= n =>
                      LET smaller == _recommend_training_config(m, 2, RInt(1), d)
                      IN  /\ smaller.batch_size <= response.config.batch_size
                          /\ smaller.epochs >= response.config.epochs

\* Exactly 0.3 of the objects are tiny, on a dataset of exactly 500 images.
WitnessC22 ==
    /\ response.kind = "config"
    /\ config_in.size_dist = [tiny |-> 3, small |-> 7, medium |-> 0, large |-> 0]
    /\ config_in.num_images = 500
    /\ response.config = [image_size |-> 640, batch_size |-> 32, epochs |-> 100]

(***************************************************************************)
(* _generate_warnings_recommendations as a function of its arguments.      *)
(***************************************************************************)
MaxDefects == 2

TinyHeavy == [tiny |-> 4, small |-> 1, medium |-> 0, large |-> 0]

\* class_frequency, num_images, size_dist, split_ratios and data_leakage of a call.
AdviceContexts ==
    { [class_frequency |-> [c \in {"A", "B"} |-> 100], num_images |-> 200,
       size_dist |-> NoSizes, split_ratios |-> <<>>, data_leakage |-> FALSE],
      [class_frequency |-> [c \in {"A"} |-> 5], num_images |-> 10,
       size_dist |-> TinyHeavy,
       split_ratios |-> [l \in {"train", "val"} |-> <<1, 2>>], data_leakage |-> TRUE],
      [class_frequency |-> [c \in {"A", "B"} |-> 20], num_images |-> 200,
       size_dist |-> NoSizes,
       split_ratios |-> [l \in {"train", "val"} |-> IF l = "train" THEN <<4, 5>> ELSE <<1, 5>>],
       data_leakage |-> FALSE],
      [class_frequency |-> ScenarioD, num_images |-> 105,
       size_dist |-> NoSizes,
       split_ratios |-> [l \in {"val"} |-> <<1, 1>>], data_leakage |-> FALSE],
      [class_frequency |-> [c \in {"A", "B"} |-> IF c = "A" THEN 4 ELSE 2], num_images |-> 6,
       size_dist |-> NoSizes,
       split_ratios |-> [l \in {"train"} |-> <<1, 1>>], data_leakage |-> TRUE] }

QualityScores == {RInt(0), RInt(40), RInt(50), <<699, 10>>, RInt(70), RInt(90)}

AdviceCallInputs ==
    [context : AdviceContexts, quality_score : QualityScores,
     corrupt_count : 0..MaxDefects, duplicate_count : 0..MaxDefects,
     mismatch_count : 0..MaxDefects, invalid_box_count : 0..MaxDefects,
     empty_count : 0..MaxDefects, out_of_bounds_count : 0..MaxDefects,
     invalid_class_count : 0..MaxDefects]

InitWarnings ==
    /\ datasets = <<>>
    /\ images = <<>>
    /\ annotations = <<>>
    /\ files = <<>>
    /\ response = NoResponse
    /\ balance_in = <<>>
    /\ split_in = <<>>
    /\ quality_in = <<>>
    /\ iou_in = <<>>
    /\ config_in = <<>>
    /\ advice_in \in AdviceCallInputs
    /\ tracked_jobs = NoJobs
    /\ file_positions = NoPositions
    /\ lock = NoThread
    /\ threads = <<>>
    /\ log_files = <<>>
    /\ allocated = 0
    /\ disk = NoDisk

generate_warnings ==
    /\ response = NoResponse
    /\ LET c == advice_in.context
           advice == _generate_warnings_recommendations(c.class_frequency,
                         _calculate_class_balance(c.class_frequency), c.size_dist,
                         c.num_images, advice_in.corrupt_count,
                         advice_in.duplicate_count, advice_in.mismatch_count,
                         c.split_ratios, c.data_leakage, advice_in.quality_score,
                         advice_in.invalid_box_count, advice_in.empty_count,
                         advice_in.out_of_bounds_count, advice_in.invalid_class_count)
       IN  response' = [kind |-> "warnings",
                        warnings |-> Warnings(advice),
                        recommendations |-> Recommendations(advice)]
    /\ UNCHANGED <<datasets, images, annotations, files, balance_in, split_in, quality_in, iou_in, config_in, advice_in, disk, tracked_jobs, file_positions, lock, threads, log_files, allocated>>

NextWarnings == generate_warnings

SpecWarnings == InitWarnings /\ [][NextWarnings]_vars

\* The seven defect rules in the order of the code: the warning, the count it
\* cites and the recommendation appended with it.
DefectRules ==
    << [warning |-> "corrupt_images", count |-> advice_in.corrupt_count,
        recommendation |-> "remove_or_fix_corrupt_images"],
       [warning |-> "duplicate_images", count |-> advice_in.duplicate_count,
        recommendation |-> "remove_duplicate_images"],
       [warning |-> "label_mismatches", count |-> advice_in.mismatch_count,
        recommendation |-> "fix_label_mismatches"],
       [warning |-> "invalid_boxes", count |-> advice_in.invalid_box_count,
        recommendation |-> "fix_invalid_boxes"],
       [warning |-> "empty_annotations", count |-> advice_in.empty_count,
        recommendation |-> "remove_or_annotate"],
       [warning |-> "out_of_bounds", count |-> advice_in.out_of_bounds_count,
        recommendation |-> "fix_out_of_bounds_boxes"],
       [warning |-> "invalid_class_ids", count |-> advice_in.invalid_class_count,
        recommendation |-> "fix_class_ids"] >>

IsDefectWarning(w) == \E i \in DOMAIN DefectRules : DefectRules[i].warning = w.warning

IsDefectRecommendation(r) == \E i \in DOMAIN DefectRules : DefectRules[i].recommendation = r

HasPositiveCount(rule) == rule.count > 0

IsQualityWarning(w) == w.warning \in {"low_quality", "moderate_quality"}

\* C23: the defect rules are independent: for each of the seven defect counts
\* one warning citing the count and one recommendation are emitted iff the
\* count is positive, in the fixed order; and of the low-quality (score < 50)
\* and moderate-quality (50 <= score < 70) warnings exactly the applicable
\* one is emitted, none from 70 on.
TheoremC23 ==
    response.kind = "warnings" =>
        LET fired == SelectSeq(DefectRules, HasPositiveCount)
            q == advice_in.quality_score
        IN  /\ SelectSeq(response.warnings, IsDefectWarning) =
                   [i \in DOMAIN fired |-> [warning |-> fired[i].warning, count |-> fired[i].count]]
            /\ SelectSeq(response.recommendations, IsDefectRecommendation) =
                   [i \in DOMAIN fired |-> fired[i].recommendation]
            /\ SelectSeq(response.warnings, IsQualityWarning) =
                   IF RLt(q, RInt(50)) THEN <<[warning |-> "low_quality", count |-> 0]>>
                   ELSE IF RLt(q, RInt(70)) THEN <<[warning |-> "moderate_quality", count |-> 0]>>
                   ELSE <<>>

\* All seven defects are present with different counts and the score is
\* moderate: seven defect warnings and the moderate-quality warning.
WitnessC23 ==
    /\ response.kind = "warnings"
    /\ \A i \in DOMAIN DefectRules : DefectRules[i].count > 0
    /\ advice_in.corrupt_count # advice_in.duplicate_count
    /\ advice_in.quality_score = RInt(50)
    /\ Len(SelectSeq(response.warnings, IsDefectWarning)) = 7
    /\ \E i \in DOMAIN response.warnings : response.warnings[i].warning = "moderate_quality"

\* The annotated images of the analysed dataset, and those assigned to 'train'.
AnnotatedIds == {i \in DOMAIN images : images[i].annotated}

TrainIds == {i \in AnnotatedIds : images[i].split = "train"}

\* C24: the train-set-too-small warning is emitted whenever the fraction of
\* annotated images assigned to 'train' is below 0.7, a fraction of 0
\* included, and is not emitted when the fraction is at least 0.7.
CounterexampleC24 ==
    (Analysed /\ AnnotatedIds # {}) =>
        ((\E i \in DOMAIN response.analysis.warnings :
              response.analysis.warnings[i].warning = "train_set_too_small")
         <=> 10 * Cardinality(TrainIds) < 7 * Cardinality(AnnotatedIds))

(***************************************************************************)
(* analyze_dataset over the layouts of datasets/<dataset_id>: directories  *)
(* removed, a data.yaml written by hand or by an export, label files       *)
(* edited outside the annotation route.                                    *)
(***************************************************************************)
StructureImages == 2

\* 0.5 0.5 0.2 0.2: inside the image
LineInside == Line(5, TRUE, <<1, 2>>, <<1, 2>>, <<1, 5>>, <<1, 5>>)

\* 0.9 0.5 0.4 0.2: every value in [0,1], the box reaches x = 1.1
LineBeyond == Line(5, TRUE, <<9, 10>>, <<1, 2>>, <<2, 5>>, <<1, 5>>)

\* 0.5 0.5 1.5 0.2: a width above 1
LineWide == Line(5, TRUE, <<1, 2>>, <<1, 2>>, <<3, 2>>, <<1, 5>>)

\* five fields that are not numbers
LineText == Line(5, FALSE, <<0, 1>>, <<0, 1>>, <<0, 1>>, <<0, 1>>)

\* four fields
LineShort == Line(4, TRUE, <<1, 2>>, <<1, 2>>, <<1, 5>>, <<0, 1>>)

LineBlank == Line(0, TRUE, <<0, 1>>, <<0, 1>>, <<0, 1>>, <<0, 1>>)

LabelFiles ==
    { NoLabelFile, LabelFile(<<>>), LabelFile(<<LineInside>>),
      LabelFile(<<LineBlank, LineInside>>), LabelFile(<<LineInside, LineBeyond>>),
      LabelFile(<<LineWide>>), LabelFile(<<LineText>>), LabelFile(<<LineBlank, LineShort>>) }

Manifests ==
    { NoManifest, Manifest(FALSE, FALSE, FALSE, 0), Manifest(TRUE, TRUE, TRUE, 2),
      Manifest(TRUE, TRUE, TRUE, 3), Manifest(TRUE, FALSE, TRUE, 2),
      Manifest(TRUE, TRUE, FALSE, 0) }

\* The subdirectories can exist only inside the dataset directory.
Layouts ==
    {l \in [dataset_dir : BOOLEAN, images_dir : BOOLEAN, labels_dir : BOOLEAN,
            manifest : Manifests, labels : [1..StructureImages -> LabelFiles]] :
        ~l.dataset_dir =>
            /\ ~l.images_dir /\ ~l.labels_dir /\ l.manifest = NoManifest
            /\ \A i \in 1..StructureImages : l.labels[i] = NoLabelFile}

InitStructure ==
    /\ datasets = [d \in {"d1"} |-> [name |-> "d1", classes |-> <<"A", "B">>]]
    /\ \E annotated \in [1..StructureImages -> BOOLEAN] :
          /\ images = [i \in 1..StructureImages |->
                          [id |-> i, filename |-> i, annotated |-> annotated[i],
                           split |-> NoSplit]]
          /\ annotations = [i \in 1..StructureImages |->
                               IF annotated[i]
                               THEN [width |-> 100, height |-> 100, boxes |-> <<BoxSmallA>>]
                               ELSE NoAnnotation]
    /\ files = [i \in 1..StructureImages |-> "c1"]
    /\ response = NoResponse
    /\ balance_in = <<>>
    /\ split_in = <<>>
    /\ quality_in = <<>>
    /\ iou_in = <<>>
    /\ config_in = <<>>
    /\ advice_in = <<>>
    /\ tracked_jobs = NoJobs
    /\ file_positions = NoPositions
    /\ lock = NoThread
    /\ threads = <<>>
    /\ log_files = <<>>
    /\ allocated = 0
    /\ disk \in Layouts

NextStructure == \E d \in DatasetIds : response = NoResponse /\ analyze_dataset(d)

SpecStructure == InitStructure /\ [][NextStructure]_vars

\* A non-blank line that has not exactly 5 fields or whose box leaves [0,1].
BadLine(line) ==
    /\ line.fields # 0
    /\ \/ line.fields # 5
       \/ /\ line.numeric
          /\ \/ 2 * line.x_center[1] * line.width[2] - line.width[1] * line.x_center[2] < 0
             \/ 2 * line.x_center[1] * line.width[2] + line.width[1] * line.x_center[2]
                    > 2 * line.x_center[2] * line.width[2]
             \/ 2 * line.y_center[1] * line.height[2] - line.height[1] * line.y_center[2] < 0
             \/ 2 * line.y_center[1] * line.height[2] + line.height[1] * line.y_center[2]
                    > 2 * line.y_center[2] * line.height[2]

\* One of the structural defects: a directory missing, the manifest without
\* 'names' or 'nc' or with another nc than the dataset has classes, or a bad
\* line in the label file of an annotated image.
StructuralDefect ==
    \/ ~disk.dataset_dir \/ ~disk.images_dir \/ ~disk.labels_dir
    \/ /\ disk.manifest.exists
       /\ \/ ~disk.manifest.has_names
          \/ ~disk.manifest.has_nc
          \/ disk.manifest.nc # Len(datasets[response.dataset_id].classes)
    \/ \E i \in DOMAIN images :
          /\ images[i].annotated
          /\ disk.labels[i].exists
          /\ \E n \in DOMAIN disk.labels[i].lines : BadLine(disk.labels[i].lines[n])

\* C25: structural defects never abort the analysis; in every result
\* structure_valid is true iff structure_issues is empty, and structure_issues
\* is non-empty whenever a directory is missing, the manifest lacks 'names' or
\* 'nc' or disagrees on the class count, or a label file of an annotated
\* image has a bad line.
TheoremC25 ==
    /\ response.kind # "error"
    /\ (response.kind # "none" /\ response.dataset_id \in DOMAIN datasets) => Analysed
    /\ Analysed =>
          /\ response.analysis.structure_valid <=> response.analysis.structure_issues = <<>>
          /\ StructuralDefect => response.analysis.structure_issues # <<>>

\* An analysis of a complete layout with a correct manifest in which the only
\* defect is a label line whose box reaches beyond x = 1.
WitnessC25 ==
    /\ Analysed
    /\ disk.dataset_dir /\ disk.images_dir /\ disk.labels_dir
    /\ disk.manifest = Manifest(TRUE, TRUE, TRUE, 2)
    /\ images[1].annotated /\ images[2].annotated
    /\ disk.labels[1] = LabelFile(<<LineInside, LineBeyond>>)
    /\ disk.labels[2] = LabelFile(<<LineInside>>)
    /\ ~response.analysis.structure_valid
    /\ Len(response.analysis.structure_issues) = 1

\* The recommendation each rule appends together with its warning.
PairedRecommendation(warning) ==
    CASE warning = "severe_class_imbalance" -> "class_weights_or_oversampling"
      [] warning = "moderate_class_imbalance" -> "augment_minority_classes"
      [] warning = "very_few_examples" -> "collect_more_data"
      [] warning = "limited_examples" -> "augmentation_or_transfer_learning"
      [] warning = "small_dataset" -> "aggressive_augmentation"
      [] warning = "tiny_objects" -> "higher_resolution"
      [] warning = "corrupt_images" -> "remove_or_fix_corrupt_images"
      [] warning = "duplicate_images" -> "remove_duplicate_images"
      [] warning = "label_mismatches" -> "fix_label_mismatches"
      [] warning = "invalid_boxes" -> "fix_invalid_boxes"
      [] warning = "empty_annotations" -> "remove_or_annotate"
      [] warning = "out_of_bounds" -> "fix_out_of_bounds_boxes"
      [] warning = "invalid_class_ids" -> "fix_class_ids"
      [] warning = "train_set_too_small" -> "increase_training_set"
      [] warning = "data_leakage" -> "fix_split_assignments"
      [] warning = "low_quality" -> "address_quality_issues"
      [] warning = "moderate_quality" -> "improve_dataset_quality"

MaxStatBoxes == 2

\* valid geometry, no class name
BoxNameless == Box(40, 40, 30, 10, 0, "")

\* zero width and height at the origin
BoxPoint == Box(0, 0, 0, 0, 0, "A")

StatBoxes == {BoxSmallA, BoxLargeB, BoxNameless, BoxPoint, BoxFlat, BoxLeft}

StatBoxLists == UNION {[1..n -> StatBoxes] : n \in 0..MaxStatBoxes}

StoredSizes == {<<100, 100>>, <<0, 0>>, <<0, 100>>, <<-100, -100>>}

InitStats ==
    /\ datasets = [d \in {"d1"} |-> [name |-> "d1", classes |-> <<"A", "B">>]]
    /\ images = <<[id |-> 1, filename |-> 1, annotated |-> TRUE, split |-> NoSplit]>>
    /\ files = <<"c1">>
    /\ \E size \in StoredSizes, boxes \in StatBoxLists :
          /\ annotations = <<[width |-> size[1], height |-> size[2], boxes |-> boxes]>>
          \* the division by width or height ends save_annotation with the file opened
          /\ disk = [dataset_dir |-> TRUE, images_dir |-> TRUE, labels_dir |-> TRUE,
                     manifest |-> NoManifest,
                     labels |-> <<LabelFile(IF size[1] = 0 \/ size[2] = 0 THEN <<>>
                                            ELSE YoloLines(boxes, size[1], size[2]))>>]
    /\ response = NoResponse
    /\ balance_in = <<>>
    /\ split_in = <<>>
    /\ quality_in = <<>>
    /\ iou_in = <<>>
    /\ config_in = <<>>
    /\ advice_in = <<>>
    /\ tracked_jobs = NoJobs
    /\ file_positions = NoPositions
    /\ lock = NoThread
    /\ threads = <<>>
    /\ log_files = <<>>
    /\ allocated = 0

NextStats == \E d \in DatasetIds : response = NoResponse /\ analyze_dataset(d)

SpecStats == InitStats /\ [][NextStats]_vars

\* C27: the values of object_size_distribution and of
\* aspect_ratio_distribution each sum to total_annotations, and the values of
\* class_frequency sum to at most total_annotations.
TheoremC27 ==
    Analysed =>
        LET a == response.analysis
        IN  /\ SumDist(a.object_size_distribution) = a.total_annotations
            /\ SumDist(a.aspect_ratio_distribution) = a.total_annotations
            /\ SumDist(a.class_frequency) <= a.total_annotations

\* Two boxes are counted, one of them without a class name, so that
\* class_frequency sums to less than total_annotations.
WitnessC27 ==
    /\ Analysed
    /\ response.analysis.total_annotations = 2
    /\ SumDist(response.analysis.object_size_distribution) = 2
    /\ SumDist(response.analysis.class_frequency) = 1

(***************************************************************************)
(* analyze_dataset over the rows of dataset_images: the table has no       *)
(* unique key on filename, and each row has a path of its own.             *)
(***************************************************************************)
LeakImages == 3

LeakFilenames == {1, 2}

InitLeakage ==
    /\ datasets = [d \in {"d1"} |-> [name |-> "d1", classes |-> <<"A", "B">>]]
    /\ \E names \in [1..LeakImages -> LeakFilenames], splits \in [1..LeakImages -> {"train", "val"}] :
          images = [i \in 1..LeakImages |->
                       [id |-> i, filename |-> names[i], annotated |-> TRUE,
                        split |-> splits[i]]]
    /\ files \in [1..LeakImages -> Contents]
    /\ annotations = [i \in 1..LeakImages |->
                         [width |-> 100, height |-> 100, boxes |-> <<BoxSmallA>>]]
    /\ disk = [dataset_dir |-> TRUE, images_dir |-> TRUE, labels_dir |-> TRUE,
               manifest |-> NoManifest,
               labels |-> [i \in 1..LeakImages |->
                              LabelFile(YoloLines(<<BoxSmallA>>, 100, 100))]]
    /\ response = NoResponse
    /\ balance_in = <<>>
    /\ split_in = <<>>
    /\ quality_in = <<>>
    /\ iou_in = <<>>
    /\ config_in = <<>>
    /\ advice_in = <<>>
    /\ tracked_jobs = NoJobs
    /\ file_positions = NoPositions
    /\ lock = NoThread
    /\ threads = <<>>
    /\ log_files = <<>>
    /\ allocated = 0

NextLeakage == \E d \in DatasetIds : response = NoResponse /\ analyze_dataset(d)

SpecLeakage == InitLeakage /\ [][NextLeakage]_vars

PassingPairs == {pq \in SUBSET PassingBoxes : Cardinality(pq) = 2}

PassingBox(p) == annotations[p[1]].boxes[p[2]]

IntersectingPairs ==
    {pq \in PassingPairs :
        \E p, q \in pq : p # q /\ IntersectionArea(PassingBox(p), PassingBox(q)) > 0}

\* C29: every box handed to _calculate_iou_consistency passed the bounds and
\* positivity checks, so the score is 1 minus the overlap penalty, which is
\* at most 0.35: iou_consistency_score lies in [0.65, 1].
TheoremC29 ==
    Analysed =>
        /\ RLe(<<65, 100>>, response.analysis.iou_consistency_score)
        /\ RLe(response.analysis.iou_consistency_score, RInt(1))
        /\ Cardinality(PassingBoxes) = response.analysis.total_annotations
        /\ response.analysis.iou_consistency_score =
               IF Cardinality(PassingBoxes) < 2 THEN RInt(1)
               ELSE LET ratio == Rat(Cardinality(IntersectingPairs), Cardinality(PassingPairs))
                    IN  IF RLe(ratio, <<3, 10>>) THEN RInt(1)
                        ELSE RSub(RInt(1), RMul(RSub(ratio, <<3, 10>>), <<1, 2>>))

\* An analysis with invalid boxes in the annotations in which every pair of
\* counted boxes overlaps: the score is at its minimum.
WitnessC29 ==
    /\ Analysed
    /\ FailingBoxes # {}
    /\ response.analysis.total_annotations >= 2
    /\ response.analysis.iou_consistency_score = Rat(65, 100)

(***************************************************************************)
(* ProgressTracker under threads: start_tracking and stop_tracking hold    *)
(* self.lock, update_progress (called by the broadcaster's _update_loop    *)
(* thread) does not.  One step per statement that reads or writes a map.   *)
(***************************************************************************)
Threads == {"t1", "t2"}

MaxLogLines == 1

MaxStarts == 2

\* Log lines: an epoch line "1/100 ..." and the line "Results saved to ...".
LogLines == {"epoch", "done"}

NoLog == [exists |-> FALSE, lines |-> <<>>]

Idle(result) == [op |-> "none", job |-> "none", pc |-> "idle", job_info |-> 0, lines |-> <<>>, tell |-> 0, result |-> result]

Call(op, job, pc) == [op |-> op, job |-> job, pc |-> pc, job_info |-> 0, lines |-> <<>>, tell |-> 0, result |-> "pending"]

At(t, op, pc) == threads[t].op = op /\ threads[t].pc = pc

InitTracker ==
    /\ datasets = <<>>
    /\ images = <<>>
    /\ annotations = <<>>
    /\ files = <<>>
    /\ response = NoResponse
    /\ balance_in = <<>>
    /\ split_in = <<>>
    /\ quality_in = <<>>
    /\ iou_in = <<>>
    /\ config_in = <<>>
    /\ advice_in = <<>>
    /\ disk = NoDisk
    /\ tracked_jobs = NoJobs
    /\ file_positions = NoPositions
    /\ lock = NoThread
    /\ threads = [t \in Threads |-> Idle("none")]
    /\ log_files = [j \in Jobs |-> NoLog]
    /\ allocated = 0

others == <<datasets, images, annotations, files, response, balance_in, split_in, quality_in, iou_in, config_in, advice_in, disk>>

\* The training process creates the log file of a job or appends a line to it.
write_log(job, line) ==
    /\ Len(log_files[job].lines) < MaxLogLines
    /\ log_files' = [log_files EXCEPT ![job] = [exists |-> TRUE, lines |-> Append(@.lines, line)]]
    /\ UNCHANGED <<others, tracked_jobs, file_positions, lock, threads, allocated>>

\* A thread enters start_tracking, stop_tracking or update_progress.
call(t, op, job) ==
    /\ threads[t].pc = "idle"
    /\ op = "start_tracking" => allocated < MaxStarts
    /\ threads' = [threads EXCEPT ![t] =
                      Call(op, job, CASE op = "start_tracking" -> "exists"
                                      [] op = "stop_tracking" -> "acquire"
                                      [] op = "update_progress" -> "check")]
    /\ UNCHANGED <<others, tracked_jobs, file_positions, lock, log_files, allocated>>

\* start_tracking: if not log_path.exists(): return False
start_exists(t) ==
    /\ At(t, "start_tracking", "exists")
    /\ threads' = [threads EXCEPT ![t] =
                      IF log_files[@.job].exists THEN [@ EXCEPT !.pc = "acquire"]
                      ELSE Idle("False")]
    /\ UNCHANGED <<others, tracked_jobs, file_positions, lock, log_files, allocated>>

\* with self.lock:
acquire(t) ==
    /\ threads[t].pc = "acquire"
    /\ lock = NoThread
    /\ lock' = t
    /\ threads' = [threads EXCEPT ![t].pc =
                      IF threads[t].op = "start_tracking" THEN "check" ELSE "del_job"]
    /\ UNCHANGED <<others, tracked_jobs, file_positions, log_files, allocated>>

\* start_tracking: an already tracked job returns False, else the dict is stored.
start_check(t) ==
    /\ At(t, "start_tracking", "check")
    /\ LET job == threads[t].job
       IN  IF tracked_jobs[job].present
           THEN /\ threads' = [threads EXCEPT ![t] = Idle("False")]
                /\ lock' = NoThread
                /\ UNCHANGED <<tracked_jobs, allocated>>
           ELSE /\ tracked_jobs' = [tracked_jobs EXCEPT ![job] = JobInfo(allocated + 1, 0, "running")]
                /\ allocated' = allocated + 1
                /\ threads' = [threads EXCEPT ![t].pc = "position"]
                /\ UNCHANGED lock
    /\ UNCHANGED <<others, file_positions, log_files>>

\* start_tracking: self.file_positions[job_id] = 0, the lock is released, return True
start_position(t) ==
    /\ At(t, "start_tracking", "position")
    /\ file_positions' = [file_positions EXCEPT ![threads[t].job] = Position(0)]
    /\ lock' = NoThread
    /\ threads' = [threads EXCEPT ![t] = Idle("True")]
    /\ UNCHANGED <<others, tracked_jobs, log_files, allocated>>

\* stop_tracking: del self.tracked_jobs[job_id] if it is there
stop_del_job(t) ==
    /\ At(t, "stop_tracking", "del_job")
    /\ tracked_jobs' = [tracked_jobs EXCEPT ![threads[t].job] = NoJobInfo]
    /\ threads' = [threads EXCEPT ![t].pc = "del_position"]
    /\ UNCHANGED <<others, file_positions, lock, log_files, allocated>>

\* stop_tracking: del self.file_positions[job_id] if it is there, the lock is released
stop_del_position(t) ==
    /\ At(t, "stop_tracking", "del_position")
    /\ file_positions' = [file_positions EXCEPT ![threads[t].job] = NoPosition]
    /\ lock' = NoThread
    /\ threads' = [threads EXCEPT ![t] = Idle("None")]
    /\ UNCHANGED <<others, tracked_jobs, log_files, allocated>>

\* update_progress: if job_id not in self.tracked_jobs: return None
update_check(t) ==
    /\ At(t, "update_progress", "check")
    /\ threads' = [threads EXCEPT ![t] =
                      IF tracked_jobs[@.job].present THEN [@ EXCEPT !.pc = "subscript"]
                      ELSE Idle("None")]
    /\ UNCHANGED <<others, tracked_jobs, file_positions, lock, log_files, allocated>>

\* update_progress: job_info = self.tracked_jobs[job_id], a KeyError when the key is gone
update_subscript(t) ==
    /\ At(t, "update_progress", "subscript")
    /\ LET job == threads[t].job
       IN  threads' = [threads EXCEPT ![t] =
                          IF tracked_jobs[job].present
                          THEN [@ EXCEPT !.pc = "read", !.job_info = tracked_jobs[job].object]
                          ELSE Idle("KeyError")]
    /\ UNCHANGED <<others, tracked_jobs, file_positions, lock, log_files, allocated>>

\* update_progress: f.seek(self.file_positions.get(job_id, 0)); lines = f.readlines()
\* (the log of a tracked job exists: start_tracking requires it and no log is removed).
update_read(t) ==
    /\ At(t, "update_progress", "read")
    /\ LET job == threads[t].job
           from == file_positions[job].position
           log == log_files[job].lines
       IN  threads' = [threads EXCEPT ![t] =
                          [@ EXCEPT !.pc = "parse",
                                    !.lines = SubSeq(log, from + 1, Len(log)),
                                    !.tell = Len(log)]]
    /\ UNCHANGED <<others, tracked_jobs, file_positions, lock, log_files, allocated>>

\* update_progress: the lines read are written into the dict job_info refers
\* to, which is the dict of tracked_jobs only while it was not replaced.
update_parse(t) ==
    /\ At(t, "update_progress", "parse")
    /\ LET job == threads[t].job
           lines == threads[t].lines
           has(kind) == \E i \in DOMAIN lines : lines[i] = kind
       IN  tracked_jobs' =
               IF tracked_jobs[job].present /\ tracked_jobs[job].object = threads[t].job_info
               THEN [tracked_jobs EXCEPT ![job] =
                        [@ EXCEPT !.epoch = IF has("epoch") THEN 1 ELSE @,
                                  !.status = IF has("done") THEN "completed" ELSE @]]
               ELSE tracked_jobs
    /\ threads' = [threads EXCEPT ![t].pc = "tell"]
    /\ UNCHANGED <<others, file_positions, lock, log_files, allocated>>

\* update_progress: self.file_positions[job_id] = f.tell()
update_tell(t) ==
    /\ At(t, "update_progress", "tell")
    /\ file_positions' = [file_positions EXCEPT ![threads[t].job] = Position(threads[t].tell)]
    /\ threads' = [threads EXCEPT ![t].pc = "return"]
    /\ UNCHANGED <<others, tracked_jobs, lock, log_files, allocated>>

\* update_progress: return self._get_progress_dict(job_id) after an update
\* (its KeyError is caught and None returned), else None
update_return(t) ==
    /\ At(t, "update_progress", "return")
    /\ threads' = [threads EXCEPT ![t] =
                      IF @.lines # <<>> /\ tracked_jobs[@.job].present
                      THEN Idle("progress") ELSE Idle("None")]
    /\ UNCHANGED <<others, tracked_jobs, file_positions, lock, log_files, allocated>>

NextTracker ==
    \/ \E j \in Jobs, l \in LogLines : write_log(j, l)
    \/ \E t \in Threads, j \in Jobs, op \in {"start_tracking", "stop_tracking", "update_progress"} : call(t, op, j)
    \/ \E t \in Threads : start_exists(t)
    \/ \E t \in Threads : acquire(t)
    \/ \E t \in Threads : start_check(t)
    \/ \E t \in Threads : start_position(t)
    \/ \E t \in Threads : stop_del_job(t)
    \/ \E t \in Threads : stop_del_position(t)
    \/ \E t \in Threads : update_check(t)
    \/ \E t \in Threads : update_subscript(t)
    \/ \E t \in Threads : update_read(t)
    \/ \E t \in Threads : update_parse(t)
    \/ \E t \in Threads : update_tell(t)
    \/ \E t \in Threads : update_return(t)

SpecTracker == InitTracker /\ [][NextTracker]_vars

\* C30: whatever the interleaving of start_tracking, stop_tracking and
\* update_progress, while no thread is inside a locked section every key of
\* file_positions is a key of tracked_jobs.
CounterexampleC30 == lock = NoThread => Keys(file_positions) \subseteq Keys(tracked_jobs)

====
